---- MODULE Spec2Model ----
(***************************************************************************)
(* Session & token lifecycle manager of awsToDoRnCli.                      *)
(*                                                                         *)
(* The model follows the current versions of the sources:                  *)
(*   SecureStorage.ts (credential store over the keychain slot and the     *)
(*   Android EncryptedStorage), CognitoService (identity provider client), *)
(*   authSlice.ts (redux session state), useTokenRefresh.ts (proactive     *)
(*   refresh timer, one set of refs per component that uses the hook),     *)
(*   ApiClient.ts (axios interceptors, reactive refresh on 401) and        *)
(*   useAuth (login / logout).                                             *)
(*                                                                         *)
(* Scheduling: one JavaScript event loop.  A handler runs without          *)
(* interruption up to its next network await (identity provider call or    *)
(* HTTP round trip); the local storage awaits that follow a network        *)
(* response are executed in the step that resumes the handler.  The        *)
(* cleanup tasks of logout are awaited one by one and are separate steps.  *)
(* Time is counted in minutes.                                             *)
(***************************************************************************)
EXTENDS Naturals, Integers, Sequences, FiniteSets, TLC

\* ---------------------------------------------------------------- bounds
MaxNow == 5           \* the clock stops advancing here
AdvanceStep == 5      \* minutes added by one clock step
TokenLife == 10       \* lifetime (minutes) of an access token the provider issues
MaxGen == 2           \* token sets the provider issues in one run
MaxLogouts == 2       \* logoutUser runs (and with them clearAuthTokens calls) in one run
LongLen == 250        \* length of a serialized token record (a JWT is longer than the chunk size)
ShortLen == 13        \* length of a re-auth timestamp string
MaxShortLife == 40    \* remaining lifetimes 0, 50, ... 50 * MaxShortLife milliseconds
MaxLifeMinutes == 30  \* remaining lifetimes of 1 .. MaxLifeMinutes minutes
MaxThreshold == 2     \* thresholds of 0 .. MaxThreshold minutes
MaxTicks == 6         \* clock readings 0, 500, ... 500 * MaxTicks milliseconds
MaxDelta == 4         \* expiry claims up to MaxDelta seconds after a whole minute
MaxReAuthNow == 20    \* time passes up to here (minutes) around the re-auth window
MaxPin == 2           \* PINs 1 .. MaxPin (0: a text shorter than four characters)
MaxOps == 2           \* pending operations added in one run
MaxCreated == 2       \* tasks created in one run
MaxTimerNow == 60     \* the refresh timer is followed up to this minute
MaxFlushes == 2       \* syncPendingOperations calls in one run
MaxParts == 4         \* a token text has 1 .. MaxParts dot-separated segments
MaxExp == 3           \* exp claims of 1 .. MaxExp seconds (0: no exp claim)

\* ------------------------------------------------------- program constants
ANDROID_CHUNK_SIZE == 200
ThresholdMinutes == 5
SessionDuration == 15
PollPeriod == 1

\* the components that use useAuth (and with it useTokenRefresh) at the same time
Hooks == {"App", "TasksScreen"}
\* requests sent through the ApiClient singleton
Requests == {"r1"}
Tasks == {"t1", "t2"}
Flushes == {"f1", "f2"}   \* syncPendingOperations calls that can be running at once
\* user ids; the second one looks like the tail of a storage key
Users == {"u1", "sync_u1"}
StorageTypes == {"tasks", "pending_sync", "last_sync"}
Platforms == {"ios", "android"}

\* ------------------------------------------------------------------ values
\* a token string: the JWT of kind k, of token set gen, with expiry claim exp (minutes)
NoTok == [kind |-> "none", gen |-> 0, exp |-> 0]
Tok(k, g, e) == [kind |-> k, gen |-> g, exp |-> e]

\* a stored string: JSON of TokenData {token, expiresAt}, or a plain number string
NoStr == [tok |-> NoTok, num |-> 0, len |-> 0]
NoCred == [username |-> "", password |-> NoStr]

ACCESS_TOKEN_KEY == "awsToDoRN_tokens_accessToken"
REFRESH_TOKEN_KEY == "awsToDoRN_tokens_refreshToken"
REAUTH_TIMESTAMP_KEY == "awsToDoRN_tokens_reAuthTimestamp"
BIOMETRIC_KEY_KEY == "awsToDoRN_tokens_biometricKey"
PIN_KEY == "awsToDoRN_tokens_pin"
StoreKeys ==
  {ACCESS_TOKEN_KEY, REFRESH_TOKEN_KEY, REAUTH_TIMESTAMP_KEY, BIOMETRIC_KEY_KEY, PIN_KEY}
Services == {"awsToDoRN", "default"}

\* AuthTokens; isNull stands for the null of `tokens: AuthTokens | null`
NullTokens ==
  [isNull |-> TRUE, accessToken |-> NoTok, refreshToken |-> NoTok,
   idToken |-> NoTok, expiresIn |-> 0]

VARIABLES
  platform,     \* Platform.OS
  now,          \* Date.now(), minutes
  store,        \* [kc: keychain slot per service, es: EncryptedStorage items]
  idp,          \* the provider's session: [signedIn, gen, exp, rt]
  auth,         \* redux state.auth
  hook,         \* per component: refs and rendered closure of useTokenRefresh
  pro,          \* per component: the refreshTokenProactively call in progress
  req,          \* per request: position in the ApiClient interceptor chain
  respIcpts,    \* response interceptors registered on the ApiClient singleton
  lo,           \* the logoutUser run
  li,           \* the login run
  ca,           \* the checkAuthStatus run
  sq,           \* task sync: connectivity, pending queue, remote store, flushes
  ls,           \* LocalStorage (MMKV): the value stored under each key, and the id counters
  tm,           \* the refresh timer on the clock: token lifetime and expiry, interval, next tick
  rh,           \* useReAuth's periodic check: minutes since the interval started or ticked,
                \* the callback's position and the isValid it read
  hist          \* observations (counters and outcomes) used by the properties

vars == <<platform, now, store, idp, auth, hook, pro, req, respIcpts, lo, li, ca, sq, ls, tm, rh, hist>>

\* ------------------------------------------------------ SecureStorage
EmptyStore ==
  [kc |-> [s \in Services |-> NoCred], es |-> [k \in StoreKeys |-> NoStr]]

\* Keychain.setGenericPassword(key, value, {service: 'awsToDoRN'}): one item per service
SetGenericPassword(s, service, key, value) ==
  [s EXCEPT !.kc[service] = [username |-> key, password |-> value]]

\* Keychain.resetGenericPassword({service}); without options the default service
ResetGenericPassword(s, service) == [s EXCEPT !.kc[service] = NoCred]

SetSecureItem(s, key, value) ==
  IF platform = "android" /\ value.len > ANDROID_CHUNK_SIZE
    THEN [s EXCEPT !.es[key] = value]
    ELSE SetGenericPassword(s, "awsToDoRN", key, value)

GetSecureItem(s, key) ==
  IF platform = "android" /\ s.es[key] # NoStr
    THEN s.es[key]
    ELSE IF s.kc["awsToDoRN"] # NoCred /\ s.kc["awsToDoRN"].username = key
           THEN s.kc["awsToDoRN"].password
           ELSE NoStr

RemoveSecureItem(s, key) ==
  LET s1 == IF platform = "android" THEN [s EXCEPT !.es[key] = NoStr] ELSE s
  IN  ResetGenericPassword(s1, "awsToDoRN")

ClearAll(s) ==
  LET s1 == IF platform = "android"
              THEN [s EXCEPT !.es = [k \in StoreKeys |-> NoStr]]
              ELSE s
  IN  ResetGenericPassword(s1, "default")

KeyOf(tokenType) ==
  IF tokenType = "access" THEN ACCESS_TOKEN_KEY ELSE REFRESH_TOKEN_KEY

\* storeToken(tokenType, token, expiresIn): ttl = 0 stands for a falsy expiresIn
StoreToken(s, tokenType, token, ttl) ==
  LET expiresAt == IF ttl # 0 THEN now + ttl ELSE 0
  IN  SetSecureItem(s, KeyOf(tokenType),
                    [tok |-> token, num |-> expiresAt, len |-> LongLen])

GetToken(s, tokenType) == GetSecureItem(s, KeyOf(tokenType)).tok

RemoveToken(s, tokenType) == RemoveSecureItem(s, KeyOf(tokenType))

\* getTokenExpirationTime: the exp claim, null (0) when absent
GetTokenExpirationTime(token) == token.exp

IsTokenExpiringSoon(token, thresholdMinutes) ==
  LET expirationTime == GetTokenExpirationTime(token)
  IN  IF expirationTime = 0 THEN FALSE
      ELSE expirationTime <= now + thresholdMinutes

StoreReAuthTimestamp(s) ==
  SetSecureItem(s, REAUTH_TIMESTAMP_KEY, [tok |-> NoTok, num |-> now, len |-> ShortLen])

GetReAuthTimestamp(s) == GetSecureItem(s, REAUTH_TIMESTAMP_KEY)

ClearReAuthTimestamp(s) == RemoveSecureItem(s, REAUTH_TIMESTAMP_KEY)

GetBiometricKey(s) == GetSecureItem(s, BIOMETRIC_KEY_KEY)

GetPIN(s) == GetSecureItem(s, PIN_KEY)

\* The same operations with an underlying call that may reject.  f names the
\* native module whose calls reject during the operation: EncryptedStorage
\* ("es"), Keychain ("kc") or none.  The result carries the store afterwards
\* and whether the operation threw.
Faults == {"none", "es", "kc"}

SetSecureItemResult(s, key, value, f) ==
  LET large == platform = "android" /\ value.len > ANDROID_CHUNK_SIZE
      threw == (large /\ f = "es") \/ (~large /\ f = "kc")
  IN  [store |-> IF threw THEN s ELSE SetSecureItem(s, key, value),
       threw |-> threw]

\* getLargeAndroidItem turns a rejected read into null, getSecureItem does the
\* same for the keychain read: the result is a value or null (NoStr), never a throw
GetSecureItemResult(s, key, f) ==
  LET encryptedResult == IF f = "es" THEN NoStr ELSE s.es[key]
  IN  IF platform = "android" /\ encryptedResult # NoStr
        THEN encryptedResult
        ELSE IF f = "kc" THEN NoStr
        ELSE IF s.kc["awsToDoRN"] # NoCred /\ s.kc["awsToDoRN"].username = key
               THEN s.kc["awsToDoRN"].password
               ELSE NoStr

\* the inner try/catch swallows a rejected EncryptedStorage.removeItem
RemoveSecureItemResult(s, key, f) ==
  LET s1 == IF platform = "android" /\ f # "es"
              THEN [s EXCEPT !.es[key] = NoStr]
              ELSE s
      threw == f = "kc"
  IN  [store |-> IF threw THEN s1 ELSE ResetGenericPassword(s1, "awsToDoRN"),
       threw |-> threw]

ClearAllResult(s, f) ==
  IF platform = "android" /\ f = "es"
    THEN [store |-> s, threw |-> TRUE]
    ELSE LET s1 == IF platform = "android"
                     THEN [s EXCEPT !.es = [k \in StoreKeys |-> NoStr]]
                     ELSE s
         IN  IF f = "kc"
               THEN [store |-> s1, threw |-> TRUE]
               ELSE [store |-> ResetGenericPassword(s1, "default"), threw |-> FALSE]

\* JSON.stringify({token, expiresAt}); len is the length of the text
TokenData(token, ttl, len) ==
  [tok |-> token, num |-> IF ttl # 0 THEN now + ttl ELSE 0, len |-> len]

StoreTokenResult(s, tokenType, token, ttl, len, f) ==
  SetSecureItemResult(s, KeyOf(tokenType), TokenData(token, ttl, len), f)

\* JSON.parse of a text that is not a token record throws or has no token: null
GetTokenResult(s, tokenType, f) == GetSecureItemResult(s, KeyOf(tokenType), f).tok

RemoveTokenResult(s, tokenType, f) == RemoveSecureItemResult(s, KeyOf(tokenType), f)

\* an underlying call of the operation rejected
Rejected(key, value, f) ==
  LET large == platform = "android" /\ value.len > ANDROID_CHUNK_SIZE
  IN  (large /\ f = "es") \/ (~large /\ f = "kc")

RemoveRejected(f) == f = "kc" \/ (platform = "android" /\ f = "es")

\* the values the storage operations are called with
Lengths == {ShortLen, LongLen}
TokenTypes == {"access", "refresh"}
Ttls == {0, TokenLife}
PlainKeys == {REAUTH_TIMESTAMP_KEY, BIOMETRIC_KEY_KEY, PIN_KEY}
PlainValues == {[tok |-> NoTok, num |-> 1, len |-> l] : l \in Lengths}

\* the access token and the refresh token written the way every caller does:
\* storeToken('access', ..., (expiresIn - now)/1000), then storeToken('refresh') if present
StoreTokens(s, tokens) ==
  LET s1 == StoreToken(s, "access", tokens.accessToken,
                       IF tokens.expiresIn # 0 THEN tokens.expiresIn - now ELSE 0)
  IN  IF tokens.refreshToken # NoTok
        THEN StoreToken(s1, "refresh", tokens.refreshToken, 0)
        ELSE s1

\* ------------------------------------------------------ identity provider
NoSession == [signedIn |-> FALSE, gen |-> 0, exp |-> 0, rt |-> FALSE]

\* the session's tokens as fetchAuthSession returns them
SessionTokens(session) ==
  [isNull |-> FALSE,
   accessToken |-> Tok("access", session.gen, session.exp),
   refreshToken |-> IF session.rt THEN Tok("refresh", session.gen, 0) ELSE NoTok,
   idToken |-> Tok("id", session.gen, 0),
   expiresIn |-> session.exp]

\* extractTokens accepts a session: tokens present and not expired
ExtractTokensOk(session) ==
  /\ session.signedIn
  /\ ~(session.exp # 0 /\ session.exp < now)

\* fetchAuthSession returns tokens refreshed by the provider, or (no generation
\* left) the tokens the session already has
Rotate(session) ==
  IF session.gen < MaxGen
    THEN [session EXCEPT !.gen = @ + 1, !.exp = now + TokenLife]
    ELSE session

\* ------------------------------------------------------ authSlice reducers
InitialState ==
  [user |-> FALSE, tokens |-> NullTokens, isAuthenticated |-> FALSE,
   isLoading |-> FALSE, error |-> FALSE, isReAuthenticated |-> FALSE]

loginStart(state) == [state EXCEPT !.isLoading = TRUE, !.error = FALSE]

loginSuccess(state, tokens) ==
  [state EXCEPT !.user = TRUE, !.tokens = tokens, !.isAuthenticated = TRUE,
                !.isLoading = FALSE, !.error = FALSE]

loginFailure(state) == [state EXCEPT !.isLoading = FALSE, !.error = TRUE]

logout(state) ==
  [state EXCEPT !.user = FALSE, !.tokens = NullTokens, !.isAuthenticated = FALSE,
                !.isLoading = FALSE, !.error = FALSE, !.isReAuthenticated = FALSE]

refreshTokenSuccess(state, tokens) == [state EXCEPT !.tokens = tokens]

proactiveRefreshSuccess(state, tokens) == [state EXCEPT !.tokens = tokens]

setLoading(state, b) == [state EXCEPT !.isLoading = b]

setReAuthState(state, b) == [state EXCEPT !.isReAuthenticated = b]

\* ------------------------------------------------------ results
\* what a caller of refreshTokenProactively gets
NoResult == [success |-> FALSE, tokens |-> NullTokens, error |-> "none"]
Busy == [success |-> FALSE, tokens |-> NullTokens, error |-> "Refresh in progress"]
NotNeeded ==
  [success |-> FALSE, tokens |-> NullTokens, error |-> "Token refresh not needed or failed"]
Refreshed(tokens) == [success |-> TRUE, tokens |-> tokens, error |-> "none"]

\* cognitoService.refreshToken as the provider answers it: the new token set,
\* or NullTokens for a rejected promise (network failure, no session, expired)
RefreshResult(ok) ==
  IF ~ok THEN [tokens |-> NullTokens, err |-> "network"]
  ELSE IF idp.signedIn /\ ExtractTokensOk(Rotate(idp))
    THEN [tokens |-> SessionTokens(Rotate(idp)), err |-> "none"]
    ELSE [tokens |-> NullTokens, err |-> "session"]

IdleHook == [timer |-> FALSE, inProgress |-> FALSE, rAuth |-> FALSE, rExp |-> 0]
IdlePro == [pc |-> "idle", resp |-> NullTokens, err |-> "none", by |-> "none"]
IdleReq ==
  [pc |-> "idle", status |-> 0, retry |-> FALSE, outer |-> 0, chain |-> 0,
   hdr |-> NoTok, resp |-> NullTokens, err |-> "none", nref |-> 0, nretry |-> 0,
   rt401 |-> "none", wasAuth |-> FALSE, result |-> "none"]
IdleLogout == [pc |-> 0, log |-> <<>>, threw |-> {}, fault |-> FALSE, runs |-> 0]
\* checkAuthStatus: the tokens it read, the validations, the refresh it made, its result
IdleCheck ==
  [pc |-> "idle", access |-> NoTok, refresh |-> NoTok, valid |-> FALSE, user |-> FALSE,
   resp |-> NullTokens, nref |-> 0, cleared |-> FALSE, result |-> "none"]
\* the interval of the refresh timer: no timer started yet
NoInterval == [remaining |-> 0, interval |-> 0, set |-> FALSE]

\* hist.soon: the last isTokenExpiringSoon call and what it returned
NoSoon == [exp |-> 0, at |-> 0, m |-> 0, result |-> FALSE, set |-> FALSE]

\* hist.val: the last validateToken call and what it returned
NoValidation ==
  [token |-> [str |-> FALSE, parts |-> 1, decodable |-> FALSE, exp |-> 0],
   at |-> 0, result |-> FALSE, set |-> FALSE]

\* hist.ra: the last BiometricService call (op, whether it returned success),
\* the time of the last successful check since the re-auth state was cleared
\* (-1: none), whether that check's timestamp write worked, and the PIN set (0: none)
NoReAuth == [op |-> "none", success |-> FALSE, wrote |-> FALSE, checkedAt |-> -1, pin |-> 0]

\* a syncPendingOperations call: idle, about to send sortedOperations[i] ("send"),
\* or awaiting the remote call for it ("call")
NoFlush == [pc |-> "idle", ops |-> <<>>, i |-> 0]

\* Task t1 was created online and exists in the remote store, t2 was created
\* offline and does not.  rows counts the rows replayed creates added, log lists
\* the operations applied to the remote store, sent the calls made per operation.
\* last is how the last syncPendingOperations call began.
IdleSync ==
  [online |-> TRUE, queue |-> <<>>, nextId |-> 1,
   exists |-> [t \in Tasks |-> t = "t1"], rows |-> 0, log |-> <<>>,
   flush |-> [f \in Flushes |-> NoFlush], starts |-> 0,
   last |-> [online |-> FALSE, authenticated |-> FALSE, pending |-> 0, began |-> FALSE]]

\* variant: the key does not carry the user id
getStorageKey_NoUser(userId, type) == "awsToDoRN_" \o type

\* LocalStorage.getStorageKey(userId, type)
getStorageKey(userId, type) == "awsToDoRN_" \o type \o "_" \o userId

StorageKeys == {getStorageKey(userId, type) : userId \in Users, type \in StorageTypes}

\* nothing stored under any key (a missing key reads as [] or null)
EmptyLocal == [kv |-> [k \in StorageKeys |-> <<>>], nextTask |-> 1, nextOp |-> 1]

\* hist.mut: the last call that wrote to LocalStorage for a user: whether its
\* remote call was made and succeeded, whether an operation was queued, whether
\* the cache was changed, whether anything stored for another user changed
NoMutation == [op |-> "none", userId |-> "none", remote |-> FALSE,
               queued |-> FALSE, applied |-> FALSE, others |-> FALSE]

\* no session: no timer
NoTimer == [running |-> FALSE, life |-> 0, exp |-> 0, interval |-> 0, next |-> 0]

\* hist.tick: the last tick of the refresh timer: when it fired, the expiry of
\* the stored access token it found, whether it refreshed, when the next tick is due
NoTick == [set |-> FALSE, at |-> 0, exp |-> 0, refreshed |-> FALSE, next |-> 0]

\* hist.poll: stale counts the minutes that passed in a row with the flag true
\* and the stored window not valid; cleared: clearReAuthSession ran and no
\* re-authentication succeeded since

\* hist.sto: the last SecureStorage call made directly and how it ended
NoCall == [op |-> "none", outcome |-> "none"]

Init ==
  /\ platform \in Platforms
  /\ now = 0
  /\ store = EmptyStore
  /\ idp = NoSession
  /\ auth = InitialState
  /\ hook = [h \in Hooks |-> IdleHook]
  /\ pro = [h \in Hooks |-> IdlePro]
  /\ req = [r \in Requests |-> IdleReq]
  /\ respIcpts = 1
  /\ lo = IdleLogout
  /\ li = "idle"
  /\ ca = IdleCheck
  /\ sq = IdleSync
  /\ ls = EmptyLocal
  /\ tm = NoTimer
  /\ rh = [since |-> 0, pc |-> "idle", isValid |-> FALSE]
  /\ hist = [late |-> [h \in Hooks |-> NoResult],
             attempt |-> [h \in Hooks |-> NoResult],
             postLogout |-> FALSE,
             interval |-> NoInterval,
             sto |-> NoCall,
             soon |-> NoSoon,
             val |-> NoValidation,
             ra |-> NoReAuth,
             mut |-> NoMutation,
             tick |-> NoTick,
             poll |-> [stale |-> 0, cleared |-> FALSE]]

\* ------------------------------------------------------ clock
Advance ==
  /\ now + AdvanceStep <= MaxNow
  /\ now' = now + AdvanceStep
  /\ UNCHANGED <<platform, rh, tm, ls, sq, ca, store, idp, auth, hook, pro, req, respIcpts, lo, li, hist>>

\* ------------------------------------------------------ useTokenRefresh
Max(a, b) == IF a >= b THEN a ELSE b
Min(a, b) == IF a <= b THEN a ELSE b

\* calculateRefreshInterval(expiresIn), milliseconds; expiresIn * 1000 * 0.66 is
\* expiresIn * 660
calculateRefreshInterval(expiresIn) ==
  LET refreshTime == Max(expiresIn * 660, 5 * 60 * 1000)
  IN  Min(refreshTime, 15 * 60 * 1000)

\* remaining lifetimes tokens.expiresIn - Date.now() (milliseconds) a timer is started with
Lifetimes ==
  {50 * i : i \in 0..MaxShortLife} \cup {60 * 1000 * i : i \in 1..MaxLifeMinutes}

\* startTokenRefresh computes the interval of setInterval from the remaining lifetime
StartInterval(remaining) ==
  /\ remaining \in Lifetimes
  /\ hist' = [hist EXCEPT !.interval = [remaining |-> remaining,
                                        interval |-> calculateRefreshInterval(remaining),
                                        set |-> TRUE]]
  /\ UNCHANGED <<platform, rh, tm, ls, sq, ca, now, store, idp, auth, hook, pro, req, respIcpts, lo, li>>

stopTokenRefresh(hk) ==
  IF hk.timer THEN [hk EXCEPT !.timer = FALSE, !.inProgress = FALSE] ELSE hk

\* uses the isAuthenticated and tokens?.expiresIn of the render that created it
startTokenRefresh(hk) ==
  IF ~hk.rAuth \/ hk.timer \/ hk.rExp = 0 THEN hk ELSE [hk EXCEPT !.timer = TRUE]

\* the effect of useTokenRefresh re-runs when isAuthenticated or tokens?.expiresIn
\* changed: cleanup of the previous run, then the body with the new closure
RunEffect(hk, isAuthenticated, expiresIn) ==
  LET cleaned == stopTokenRefresh(hk)
      rendered == [cleaned EXCEPT !.rAuth = isAuthenticated, !.rExp = expiresIn]
  IN  IF isAuthenticated THEN startTokenRefresh(rendered) ELSE stopTokenRefresh(rendered)

Render(h) ==
  /\ <<auth.isAuthenticated, auth.tokens.expiresIn>> # <<hook[h].rAuth, hook[h].rExp>>
  /\ hook' = [hook EXCEPT ![h] = RunEffect(@, auth.isAuthenticated, auth.tokens.expiresIn)]
  /\ UNCHANGED <<platform, rh, tm, ls, sq, ca, now, store, idp, auth, pro, req, respIcpts, lo, li, hist>>

\* variant: the provider is called without a stored refresh token
ShouldCallProvider_NoRefreshTokenCheck(s) ==
  LET accessToken == GetToken(s, "access")
  IN  IF accessToken = NoTok THEN FALSE
      ELSE IsTokenExpiringSoon(accessToken, ThresholdMinutes)

\* shouldRefreshToken, then the refresh token read of refreshTokenIfNeeded
ShouldCallProvider(s) ==
  LET accessToken == GetToken(s, "access")
      shouldRefresh == IF accessToken = NoTok THEN FALSE
                       ELSE IsTokenExpiringSoon(accessToken, ThresholdMinutes)
  IN  shouldRefresh /\ GetToken(s, "refresh") # NoTok

\* refreshTokenProactively past its in-progress check, up to the provider call.
\* One outstanding provider call is tracked per component.
ProStart(h, by) ==
  /\ ~hook[h].inProgress
  /\ pro[h].pc = "idle"
  /\ IF ShouldCallProvider(store)
       THEN \E ok \in BOOLEAN :
              LET res == RefreshResult(ok)
              IN  /\ pro' = [pro EXCEPT ![h] = [pc |-> "calling", resp |-> res.tokens,
                                                err |-> res.err, by |-> by]]
                  /\ idp' = IF res.tokens.isNull THEN idp ELSE Rotate(idp)
                  /\ hook' = [hook EXCEPT ![h].inProgress = TRUE]
                  /\ hist' = [hist EXCEPT !.attempt[h] = NoResult, !.late[h] = NoResult]
       ELSE /\ hist' = [hist EXCEPT !.attempt[h] = NotNeeded, !.late[h] = NoResult]
            /\ UNCHANGED <<pro, idp, hook>>
  /\ UNCHANGED <<platform, rh, tm, ls, sq, ca, now, store, auth, req, respIcpts, lo, li>>

\* the setInterval callback
TimerTick(h) ==
  /\ hook[h].timer
  /\ IF hook[h].inProgress THEN UNCHANGED vars ELSE ProStart(h, "timer")

\* refreshTokenProactively called by a component
DirectCall(h) ==
  IF hook[h].inProgress
    THEN /\ hist' = [hist EXCEPT !.late[h] = Busy]
         /\ UNCHANGED <<platform, rh, tm, ls, sq, ca, now, store, idp, auth, hook, pro, req, respIcpts, lo, li>>
    ELSE ProStart(h, "direct")

\* the provider call of refreshTokenIfNeeded returns
ProDone(h) ==
  /\ pro[h].pc = "calling"
  /\ LET newTokens == pro[h].resp
     IN  IF newTokens.isNull
           THEN /\ hist' = [hist EXCEPT !.attempt[h] = NotNeeded]
                /\ UNCHANGED <<store, auth>>
           ELSE /\ store' = StoreTokens(store, newTokens)
                /\ auth' = proactiveRefreshSuccess(auth, newTokens)
                /\ hist' = [hist EXCEPT !.attempt[h] = Refreshed(newTokens)]
  /\ pro' = [pro EXCEPT ![h] = IdlePro]
  /\ hook' = [hook EXCEPT ![h].inProgress = FALSE]
  /\ UNCHANGED <<platform, rh, tm, ls, sq, ca, now, idp, req, respIcpts, lo, li>>

\* stopTokenRefresh / startTokenRefresh called by a component
DirectStop(h) ==
  /\ hook[h].timer
  /\ hook' = [hook EXCEPT ![h] = stopTokenRefresh(@)]
  /\ UNCHANGED <<platform, rh, tm, ls, sq, ca, now, store, idp, auth, pro, req, respIcpts, lo, li, hist>>

DirectStart(h) ==
  /\ startTokenRefresh(hook[h]) # hook[h]
  /\ hook' = [hook EXCEPT ![h] = startTokenRefresh(@)]
  /\ UNCHANGED <<platform, rh, tm, ls, sq, ca, now, store, idp, auth, pro, req, respIcpts, lo, li, hist>>

\* ------------------------------------------------------ ApiClient
\* one rejected-handler of the response interceptor, up to its provider call;
\* st = [retry, store, auth, suspended, left]
\* variant: the handler does not mark the request as retried
HandlerStep_NoRetryFlag(st, status) ==
  IF status = 401 /\ ~st.retry
    THEN IF GetToken(st.store, "refresh") = NoTok
           THEN [st EXCEPT !.store = RemoveToken(RemoveToken(@, "access"), "refresh"),
                           !.auth = logout(@)]
           ELSE [st EXCEPT !.suspended = TRUE]
    ELSE st

\* variant: the handler calls the provider without looking for a refresh token
HandlerStep_NoRefreshTokenCheck(st, status) ==
  IF status = 401 /\ ~st.retry
    THEN [st EXCEPT !.retry = TRUE, !.suspended = TRUE]
    ELSE st

\* variant: the handler treats 403 like 401
HandlerStep_ForbiddenAsExpired(st, status) ==
  IF status \in {401, 403} /\ ~st.retry
    THEN IF GetToken(st.store, "refresh") = NoTok
           THEN [st EXCEPT !.retry = TRUE,
                           !.store = RemoveToken(RemoveToken(@, "access"), "refresh"),
                           !.auth = logout(@)]
           ELSE [st EXCEPT !.retry = TRUE, !.suspended = TRUE]
    ELSE st

HandlerStep(st, status) ==
  IF status = 401 /\ ~st.retry
    THEN IF GetToken(st.store, "refresh") = NoTok
           THEN [st EXCEPT !.retry = TRUE,
                           !.store = RemoveToken(RemoveToken(@, "access"), "refresh"),
                           !.auth = logout(@)]
           ELSE [st EXCEPT !.retry = TRUE, !.suspended = TRUE]
    ELSE st

\* the error passes the k registered rejected-handlers in turn, until one awaits the provider
RECURSIVE RunChain(_, _, _)
RunChain(st, status, k) ==
  IF k = 0 \/ st.suspended
    THEN [st EXCEPT !.left = k]
    ELSE RunChain(HandlerStep(st, status), status, k - 1)

\* the catch block of a failed refresh
RefreshFailed(st) ==
  [st EXCEPT !.store = RemoveToken(RemoveToken(@, "access"), "refresh"),
             !.auth = logout(@)]

\* request interceptor: Authorization is overwritten when an access token is stored
WithAuthHeader(s, hdr) ==
  LET token == GetToken(s, "access") IN IF token # NoTok THEN token ELSE hdr

Send(r) ==
  /\ req[r].pc \in {"idle", "done"}
  /\ req' = [req EXCEPT ![r] = [IdleReq EXCEPT !.pc = "sent",
                                               !.chain = respIcpts,
                                               !.hdr = WithAuthHeader(store, NoTok)]]
  /\ UNCHANGED <<platform, rh, tm, ls, sq, ca, now, store, idp, auth, hook, pro, respIcpts, lo, li, hist>>

\* observation: the refresh token at the first 401 of a request (stored / absent)
Is401First(r, status) == status = 401 /\ req[r].pc = "sent" /\ req[r].rt401 = "none"
First401(r, status, old) ==
  IF Is401First(r, status)
    THEN IF GetToken(store, "refresh") # NoTok THEN "stored" ELSE "absent"
    ELSE old

\* the outcome of an error that ran through `k` rejected-handlers
AfterChain(r, status, st0, k) ==
  LET st == RunChain(st0, status, k)
  IN  /\ store' = st.store
      /\ auth' = st.auth
      /\ IF st.suspended
           THEN \E ok \in BOOLEAN :
                  LET res == RefreshResult(ok)
                  IN  /\ idp' = IF res.tokens.isNull THEN idp ELSE Rotate(idp)
                      /\ req' = [req EXCEPT ![r].pc = "refreshing",
                                            ![r].status = status,
                                            ![r].retry = st.retry,
                                            ![r].outer = st.left,
                                            ![r].resp = res.tokens,
                                            ![r].err = res.err,
                                            ![r].nref = @ + 1,
                                            ![r].rt401 = First401(r, status, @),
                                            ![r].wasAuth = IF Is401First(r, status)
                                                             THEN auth.isAuthenticated ELSE @]
           ELSE /\ idp' = idp
                /\ req' = [req EXCEPT ![r].pc = "done",
                                      ![r].status = status,
                                      ![r].retry = st.retry,
                                      ![r].outer = 0,
                                      ![r].rt401 = First401(r, status, @),
                                      ![r].wasAuth = IF Is401First(r, status)
                                                       THEN auth.isAuthenticated ELSE @,
                                      ![r].result = "rejected"]

\* the HTTP response of a request (or of its retry) arrives and passes the
\* response interceptors that were registered when it was sent
Respond(r, status) ==
  /\ req[r].pc = "sent"
  /\ IF status = 200
       THEN /\ req' = [req EXCEPT ![r].pc = "done", ![r].status = 200,
                                  ![r].outer = 0, ![r].result = "ok"]
            /\ UNCHANGED <<store, auth, idp>>
       ELSE AfterChain(r, status,
                       [retry |-> req[r].retry, store |-> store, auth |-> auth,
                        suspended |-> FALSE, left |-> 0],
                       req[r].chain + req[r].outer)
  /\ UNCHANGED <<platform, rh, tm, ls, sq, ca, now, hook, pro, respIcpts, lo, li, hist>>

\* cognitoService.refreshToken of the interceptor returns
RefreshDone(r) ==
  /\ req[r].pc = "refreshing"
  /\ LET newTokens == req[r].resp
     IN  IF newTokens.isNull
           THEN AfterChain(r, req[r].status,
                           RefreshFailed([retry |-> req[r].retry, store |-> store,
                                          auth |-> auth, suspended |-> FALSE, left |-> 0]),
                           req[r].outer)
           ELSE /\ store' = StoreTokens(store, newTokens)
                /\ auth' = refreshTokenSuccess(auth, newTokens)
                /\ req' = [req EXCEPT ![r].pc = "sent",
                                      ![r].chain = respIcpts,
                                      ![r].nretry = @ + 1,
                                      ![r].hdr = WithAuthHeader(StoreTokens(store, newTokens),
                                                                newTokens.accessToken)]
                /\ idp' = idp
  /\ UNCHANGED <<platform, rh, tm, ls, sq, ca, now, hook, pro, respIcpts, lo, li, hist>>

\* ------------------------------------------------------ useAuth.logoutUser
\* the component whose logout button calls logoutUser
LogoutCaller == "TasksScreen"
LogoutTasks == <<"stopTokenRefresh", "cognitoService.logout", "clearAuthTokens",
                 "clearTokens", "clearReAuthState", "dispatch(logout)">>
LogoutDone == Len(LogoutTasks) + 1

\* variant: one try/catch around all the tasks, the first throw ends the cleanup
NextTask_AbortOnThrow(task, threw) == IF threw THEN LogoutDone ELSE task + 1

\* for (const task of cleanupTasks) { try { await task() } catch {} }:
\* the loop goes on to the next task whether or not the task threw
NextTask(task, threw) == task + 1

\* bookkeeping of one cleanup task
Ran(l, task, threw) ==
  [l EXCEPT !.log = Append(@, task),
            !.threw = IF threw THEN @ \cup {task} ELSE @,
            !.pc = NextTask(task, threw)]

\* The logout button of a screen that shows the authenticated session is pressed:
\* task 1 (stopTokenRefresh is synchronous), then signOut of task 2 is on its way
LogoutStart ==
  /\ lo.pc \in {0, LogoutDone}
  /\ lo.runs < MaxLogouts
  /\ auth.isAuthenticated
  /\ hook[LogoutCaller].rAuth
  /\ hook' = [hook EXCEPT ![LogoutCaller] = stopTokenRefresh(@)]
  /\ lo' = Ran([lo EXCEPT !.log = <<>>, !.threw = {}, !.fault = FALSE,
                          !.runs = @ + 1], 1, FALSE)
  /\ hist' = [hist EXCEPT !.postLogout = FALSE]
  /\ UNCHANGED <<platform, rh, tm, ls, sq, ca, now, store, idp, auth, pro, req, respIcpts, li>>

\* task 2, CognitoService.logout: signOut returns (ok) or fails; clearAll in both
\* branches (sok: the storage call works); the catch branch rethrows
LogoutSignOut(ok, sok) ==
  /\ lo.pc = 2
  /\ idp' = IF ok THEN [idp EXCEPT !.signedIn = FALSE] ELSE idp
  /\ store' = IF sok THEN ClearAll(store) ELSE store
  /\ lo' = Ran([lo EXCEPT !.fault = @ \/ ~sok], 2, ~ok \/ ~sok)
  /\ UNCHANGED <<platform, rh, tm, ls, sq, ca, now, auth, hook, pro, req, respIcpts, li, hist>>

\* task 3, ApiClient.clearAuthTokens: the request interceptors are cleared and
\* setupInterceptors registers a request and a response interceptor again
LogoutClearAuth ==
  /\ lo.pc = 3
  /\ respIcpts' = respIcpts + 1
  /\ lo' = Ran(lo, 3, FALSE)
  /\ UNCHANGED <<platform, rh, tm, ls, sq, ca, now, store, idp, auth, hook, pro, req, li, hist>>

\* task 4, clearTokens: SecureStorage.clearAll, rethrown on failure
LogoutClearTokens(sok) ==
  /\ lo.pc = 4
  /\ store' = IF sok THEN ClearAll(store) ELSE store
  /\ lo' = Ran([lo EXCEPT !.fault = @ \/ ~sok], 4, ~sok)
  /\ UNCHANGED <<platform, rh, tm, ls, sq, ca, now, idp, auth, hook, pro, req, respIcpts, li, hist>>

\* task 5, reAuthService.clearReAuthState: a failure is caught inside
LogoutClearReAuth(sok) ==
  /\ lo.pc = 5
  /\ store' = IF sok THEN ClearReAuthTimestamp(store) ELSE store
  /\ lo' = Ran([lo EXCEPT !.fault = @ \/ ~sok], 5, FALSE)
  /\ UNCHANGED <<platform, rh, tm, ls, sq, ca, now, idp, auth, hook, pro, req, respIcpts, li, hist>>

\* task 6, dispatch(logout())
LogoutDispatch ==
  /\ lo.pc = 6
  /\ auth' = logout(auth)
  /\ lo' = Ran(lo, 6, FALSE)
  /\ hist' = [hist EXCEPT !.postLogout = TRUE]
  /\ UNCHANGED <<platform, rh, tm, ls, sq, ca, now, store, idp, hook, pro, req, respIcpts, li>>

\* ------------------------------------------------------ useAuth.login
\* li: "idle", "signIn" and "recover" while login runs, then what it returned
LoginStart ==
  /\ li \notin {"signIn", "recover"}
  /\ ~auth.isAuthenticated
  /\ idp.gen < MaxGen
  /\ li' = "signIn"
  /\ auth' = loginStart(auth)
  /\ hist' = [hist EXCEPT !.postLogout = FALSE]
  /\ UNCHANGED <<platform, rh, tm, ls, sq, ca, now, store, idp, hook, pro, req, respIcpts, lo>>

\* `dispatch(loginFailure(...)); return {success: false}`
LoginFails ==
  /\ auth' = loginFailure(auth)
  /\ li' = "failed"

\* `dispatch(loginSuccess(...)); return {success: true}`
LoginSucceeds(tokens) ==
  /\ auth' = loginSuccess(auth, tokens)
  /\ li' = "succeeded"

\* signIn returns and cognitoService.login goes on.  ok: the credentials are
\* accepted and the network works; rt: the new session exposes a refresh token;
\* wr: how many of the two token writes (cognitoService.login, storeTokens) work.
\* A session that already exists makes signIn throw "There is already a signed in
\* user", and login goes on to recover it.
LoginDone(ok, rt, wr) ==
  /\ li = "signIn"
  /\ IF ~ok
       THEN LoginFails /\ UNCHANGED <<idp, store>>
       ELSE IF idp.signedIn
         THEN li' = "recover" /\ UNCHANGED <<idp, store, auth>>
         ELSE LET session == [signedIn |-> TRUE, gen |-> idp.gen + 1,
                              exp |-> now + TokenLife, rt |-> rt]
                  tokens == SessionTokens(session)
              IN  /\ idp' = session
                  /\ store' = IF wr = 0 THEN store
                              ELSE IF wr = 1 THEN StoreTokens(store, tokens)
                              ELSE StoreTokens(StoreTokens(store, tokens), tokens)
                  /\ IF wr = 2 /\ ExtractTokensOk(session)
                       THEN LoginSucceeds(tokens)
                       ELSE LoginFails
  /\ UNCHANGED <<platform, rh, tm, ls, sq, ca, now, hook, pro, req, respIcpts, lo, hist>>

\* what the recovery of an existing session gets: getCurrentUser (uok), then
\* refreshToken('') (rok), then storeTokens (sok)
Recovered(uok, rok, sok) ==
  LET currentUser == uok /\ idp.signedIn
      res == RefreshResult(rok)
  IN  [user |-> currentUser,
       tokens |-> IF currentUser THEN res.tokens ELSE NullTokens,
       stored |-> currentUser /\ ~res.tokens.isNull /\ sok]

\* the recovery path of login
LoginRecover(uok, rok, sok) ==
  /\ li = "recover"
  /\ LET rec == Recovered(uok, rok, sok)
     IN  /\ idp' = IF rec.tokens.isNull THEN idp ELSE Rotate(idp)
         /\ IF rec.stored
              THEN /\ store' = StoreTokens(store, rec.tokens)
                   /\ LoginSucceeds(rec.tokens)
              ELSE /\ store' = store
                   /\ LoginFails
  /\ UNCHANGED <<platform, rh, tm, ls, sq, ca, now, hook, pro, req, respIcpts, lo, hist>>

\* ------------------------------------------------------ useAuth.checkAuthStatus
\* validateToken for a well-formed token: the exp claim is not before the current time
ValidateToken(token) == token # NoTok /\ ~(token.exp # 0 /\ token.exp < now)

\* `await clearTokens(); return false` and the finally block
CheckFails(c) ==
  /\ store' = ClearAll(store)
  /\ auth' = setLoading(auth, FALSE)
  /\ ca' = [c EXCEPT !.pc = "done", !.cleared = TRUE, !.result = "false"]

\* `dispatch(loginSuccess(...)); return true` and the finally block
CheckSucceeds(c, tokens) ==
  /\ auth' = setLoading(loginSuccess(auth, tokens), FALSE)
  /\ ca' = [c EXCEPT !.pc = "done", !.result = "true"]

\* setLoading(true), getStoredTokens; without access token it gives up, otherwise
\* validateStoredTokens runs and getCurrentUser is on its way
CheckStart ==
  /\ ca.pc \in {"idle", "done"}
  /\ LET access == GetToken(store, "access")
         c == [IdleCheck EXCEPT !.access = access,
                                !.refresh = GetToken(store, "refresh"),
                                !.valid = ValidateToken(access)]
     IN  IF access = NoTok
           THEN CheckFails(c)
           ELSE /\ auth' = setLoading(auth, TRUE)
                /\ ca' = [c EXCEPT !.pc = "getUser"]
                /\ store' = store
  /\ UNCHANGED <<platform, rh, tm, ls, sq, now, idp, hook, pro, req, respIcpts, lo, li, hist>>

\* getCurrentUser returned (found: the provider knows a signed-in user and answers)
CheckUser(ok) ==
  /\ ca.pc = "getUser"
  /\ LET currentUser == ok /\ idp.signedIn
         c == [ca EXCEPT !.user = currentUser]
     IN  IF ~ca.valid \/ ~currentUser
           THEN IF ca.refresh # NoTok
                  THEN \E rok \in BOOLEAN :
                         LET res == RefreshResult(rok)
                         IN  /\ ca' = [c EXCEPT !.pc = "refreshing", !.resp = res.tokens,
                                                !.nref = @ + 1]
                             /\ idp' = IF res.tokens.isNull THEN idp ELSE Rotate(idp)
                             /\ UNCHANGED <<store, auth>>
                  ELSE CheckFails(c) /\ idp' = idp
           ELSE IF ShouldCallProvider(store)
                  THEN \E rok \in BOOLEAN :
                         LET res == RefreshResult(rok)
                         IN  /\ ca' = [c EXCEPT !.pc = "proactive", !.resp = res.tokens]
                             /\ idp' = IF res.tokens.isNull THEN idp ELSE Rotate(idp)
                             /\ UNCHANGED <<store, auth>>
                  ELSE /\ ca' = [c EXCEPT !.pc = "getTokens"]
                       /\ UNCHANGED <<store, auth, idp>>
  /\ UNCHANGED <<platform, rh, tm, ls, sq, now, hook, pro, req, respIcpts, lo, li, hist>>

\* cognitoService.refreshToken(refreshTokenValue) returned: storeTokens, then
\* getCurrentUser is on its way; a rejected refresh gives up
CheckRefreshDone ==
  /\ ca.pc = "refreshing"
  /\ IF ca.resp.isNull
       THEN CheckFails(ca)
       ELSE /\ store' = StoreTokens(store, ca.resp)
            /\ ca' = [ca EXCEPT !.pc = "userAfter"]
            /\ auth' = auth
  /\ UNCHANGED <<platform, rh, tm, ls, sq, now, idp, hook, pro, req, respIcpts, lo, li, hist>>

\* the second getCurrentUser returned
CheckUserAfter(ok) ==
  /\ ca.pc = "userAfter"
  /\ IF ok /\ idp.signedIn
       THEN CheckSucceeds(ca, ca.resp) /\ store' = store
       ELSE CheckFails(ca)
  /\ UNCHANGED <<platform, rh, tm, ls, sq, now, idp, hook, pro, req, respIcpts, lo, li, hist>>

\* finalTokens when refreshTokenIfNeeded gave nothing
BackfillTokens(c) ==
  [isNull |-> FALSE, accessToken |-> c.access, refreshToken |-> c.refresh,
   idToken |-> NoTok, expiresIn |-> 0]

\* the provider call of refreshTokenIfNeeded returned: new tokens are stored and
\* become finalTokens; without them getAuthTokens is on its way
CheckProactiveDone ==
  /\ ca.pc = "proactive"
  /\ IF ca.resp.isNull
       THEN /\ ca' = [ca EXCEPT !.pc = "getTokens"]
            /\ UNCHANGED <<store, auth>>
       ELSE /\ store' = StoreTokens(store, ca.resp)
            /\ CheckSucceeds(ca, ca.resp)
  /\ UNCHANGED <<platform, rh, tm, ls, sq, now, idp, hook, pro, req, respIcpts, lo, li, hist>>

\* getAuthTokens returned (ok: fetchAuthSession answered): Object.assign(finalTokens, ...)
CheckGetTokens(ok) ==
  /\ ca.pc = "getTokens"
  /\ LET completeTokens == IF ok /\ idp.signedIn /\ ExtractTokensOk(idp)
                             THEN SessionTokens(idp) ELSE NullTokens
         finalTokens == IF completeTokens.isNull THEN BackfillTokens(ca)
                        ELSE completeTokens
     IN  CheckSucceeds(ca, finalTokens)
  /\ UNCHANGED <<platform, rh, tm, ls, sq, now, store, idp, hook, pro, req, respIcpts, lo, li, hist>>

\* ------------------------------------------------------ re-authentication
\* a successful biometric or PIN check: updateReAuthTimestamp, setReAuthState(true).
\* The prompt is modal, so no logout is running behind it.
ReAuthSuccess ==
  /\ auth.isAuthenticated
  /\ lo.pc \in {0, LogoutDone}
  /\ ~auth.isReAuthenticated
  /\ store' = StoreReAuthTimestamp(store)
  /\ auth' = setReAuthState(auth, TRUE)
  /\ rh' = [rh EXCEPT !.since = 0]
  /\ hist' = [hist EXCEPT !.poll = [stale |-> 0, cleared |-> FALSE]]
  /\ UNCHANGED <<platform, tm, ls, sq, ca, now, idp, hook, pro, req, respIcpts, lo, li>>

\* BiometricService.  A PIN is a short text, written num |-> pin.
PinText(pin) == [tok |-> NoTok, num |-> pin, len |-> ShortLen]

StorePIN(s, pin) == SetSecureItem(s, PIN_KEY, PinText(pin))

\* isReAuthValid: `timeDiff < sessionDuration` for the stored timestamp, false without one
isReAuthValid(s) ==
  LET timestamp == GetReAuthTimestamp(s)
  IN  IF timestamp = NoStr THEN FALSE
      ELSE now - timestamp.num < SessionDuration

\* getReAuthTimeRemaining: `Math.max(0, sessionDuration - timeDiff)` for the
\* stored timestamp, 0 without one
getReAuthTimeRemaining(s) ==
  LET timestamp == GetReAuthTimestamp(s)
  IN  IF timestamp = NoStr THEN 0
      ELSE Max(0, SessionDuration - (now - timestamp.num))

\* updateReAuthTimestamp: a failing write (~sok) is caught and dropped
updateReAuthTimestamp(s, sok) == IF sok THEN StoreReAuthTimestamp(s) ELSE s

\* time passes
Elapse ==
  /\ now + AdvanceStep <= MaxReAuthNow
  /\ now' = now + AdvanceStep
  /\ UNCHANGED <<platform, rh, tm, ls, sq, ca, store, idp, auth, hook, pro, req, respIcpts, lo, li, hist>>

\* authenticateWithBiometrics: the prompt succeeds (ok) or not
AuthenticateWithBiometrics(ok, sok) ==
  /\ store' = IF ok THEN updateReAuthTimestamp(store, sok) ELSE store
  /\ hist' = [hist EXCEPT !.ra = [@ EXCEPT !.op = "biometrics", !.success = ok,
                                           !.wrote = IF ok THEN sok ELSE @,
                                           !.checkedAt = IF ok THEN now ELSE @]]
  /\ UNCHANGED <<platform, rh, tm, ls, sq, ca, now, idp, auth, hook, pro, req, respIcpts, lo, li>>

\* setPIN(pin): rejects a text shorter than four characters, else storePIN
SetPIN(pin, sok) ==
  LET accepted == pin # 0 /\ sok
  IN  /\ store' = IF accepted THEN StorePIN(store, pin) ELSE store
      /\ hist' = [hist EXCEPT !.ra = [@ EXCEPT !.op = "setPIN", !.success = accepted,
                                               !.pin = IF accepted THEN pin ELSE @]]
      /\ UNCHANGED <<platform, rh, tm, ls, sq, ca, now, idp, auth, hook, pro, req, respIcpts, lo, li>>

\* what authenticateWithPIN(pin) returns as success
PinMatches(s, pin) ==
  LET storedPIN == GetPIN(s)
  IN  storedPIN # NoStr /\ storedPIN = PinText(pin)

AuthenticateWithPIN(pin, sok) ==
  LET ok == PinMatches(store, pin)
  IN  /\ store' = IF ok THEN updateReAuthTimestamp(store, sok) ELSE store
      /\ hist' = [hist EXCEPT !.ra = [@ EXCEPT !.op = "pin", !.success = ok,
                                               !.wrote = IF ok THEN sok ELSE @,
                                               !.checkedAt = IF ok THEN now ELSE @]]
      /\ UNCHANGED <<platform, rh, tm, ls, sq, ca, now, idp, auth, hook, pro, req, respIcpts, lo, li>>

\* clearReAuthState: clearReAuthTimestamp, a failure is caught and dropped
ClearReAuthState(sok) ==
  /\ store' = IF sok THEN ClearReAuthTimestamp(store) ELSE store
  /\ hist' = [hist EXCEPT !.ra = [@ EXCEPT !.op = "clear", !.success = sok,
                                           !.wrote = FALSE, !.checkedAt = -1]]
  /\ UNCHANGED <<platform, rh, tm, ls, sq, ca, now, idp, auth, hook, pro, req, respIcpts, lo, li>>

\* ------------------------------------------------------ useReAuth's periodic check
\* a minute passes.  The interval exists while isReAuthenticated is true, so the
\* minute cannot pass when a tick is due; the callback's two keychain reads take
\* less than a minute.
PollElapse ==
  /\ now + 1 <= MaxReAuthNow
  /\ rh.pc = "idle"
  /\ auth.isReAuthenticated => rh.since < PollPeriod
  /\ now' = now + 1
  /\ rh' = [rh EXCEPT !.since = IF auth.isReAuthenticated THEN @ + 1 ELSE 0]
  /\ hist' = [hist EXCEPT !.poll.stale =
                 IF auth.isReAuthenticated /\ ~isReAuthValid(store) THEN @ + 1 ELSE 0]
  /\ UNCHANGED <<platform, tm, ls, sq, ca, store, idp, auth, hook, pro, req, respIcpts, lo, li>>

\* the setInterval callback starts: checkReAuthStatus awaits isReAuthValid()
PollTick ==
  /\ auth.isReAuthenticated
  /\ rh.since = PollPeriod
  /\ rh.pc = "idle"
  /\ rh' = [since |-> 0, pc |-> "read", isValid |-> isReAuthValid(store)]
  /\ UNCHANGED <<platform, tm, ls, sq, ca, now, store, idp, auth, hook, pro, req, respIcpts, lo, li, hist>>

\* variant: the callback does not write the flag
PollTickDone_NoDispatch ==
  /\ rh.pc = "read"
  /\ rh' = [rh EXCEPT !.pc = "idle"]
  /\ UNCHANGED <<platform, tm, ls, sq, ca, now, store, idp, auth, hook, pro, req, respIcpts, lo, li, hist>>

\* the callback resumes: dispatch(setReAuthState(isValid)), and
\* dispatch(clearReAuthState()) when not valid; a flag that turns true starts
\* a new interval
PollTickDone ==
  /\ rh.pc = "read"
  /\ auth' = setReAuthState(auth, rh.isValid)
  /\ rh' = [rh EXCEPT !.pc = "idle",
                      !.since = IF rh.isValid /\ ~auth.isReAuthenticated THEN 0 ELSE @]
  /\ hist' = [hist EXCEPT !.poll.stale = IF auth.isReAuthenticated THEN @ ELSE 0]
  /\ UNCHANGED <<platform, tm, ls, sq, ca, now, store, idp, hook, pro, req, respIcpts, lo, li>>

\* clearReAuthSession: reAuthService.clearReAuthState() (a failing removal is
\* dropped inside), then dispatch(clearReAuthState())
ClearReAuthSession(sok) ==
  /\ auth.isReAuthenticated
  /\ store' = IF sok THEN ClearReAuthTimestamp(store) ELSE store
  /\ auth' = setReAuthState(auth, FALSE)
  /\ hist' = [hist EXCEPT !.poll.cleared = TRUE]
  /\ UNCHANGED <<platform, rh, tm, ls, sq, ca, now, idp, hook, pro, req, respIcpts, lo, li>>

PollNext ==
  \/ PollElapse
  \/ PollTick
  \/ PollTickDone
  \/ \E sok \in BOOLEAN : ClearReAuthSession(sok)

BiometricNext ==
  \/ \E ok \in BOOLEAN, sok \in BOOLEAN : AuthenticateWithBiometrics(ok, sok)
  \/ \E pin \in 0..MaxPin, sok \in BOOLEAN : SetPIN(pin, sok)
  \/ \E pin \in 1..MaxPin, sok \in BOOLEAN : AuthenticateWithPIN(pin, sok)
  \/ \E sok \in BOOLEAN : ClearReAuthState(sok)

\* ------------------------------------------------------ task sync
\* NetInfo reports a change of connectivity
NetInfoChange ==
  /\ sq' = [sq EXCEPT !.online = ~@]
  /\ UNCHANGED <<platform, rh, tm, ls, ca, now, store, idp, auth, hook, pro, req, respIcpts, lo, li, hist>>

\* LocalStorage.addPendingSyncOperation, as updateTaskOffline and deleteTask call
\* it: the operation is pushed at the end of the stored array
AddPendingSyncOperation(type, task) ==
  /\ sq.nextId <= MaxOps
  /\ sq' = [sq EXCEPT !.queue = Append(@, [id |-> sq.nextId, type |-> type,
                                            task |-> task, timestamp |-> now]),
                       !.nextId = @ + 1]
  /\ UNCHANGED <<platform, rh, tm, ls, ca, now, store, idp, auth, hook, pro, req, respIcpts, lo, li, hist>>

\* the operations of a task that is created, edited and deleted
Lifecycle == <<"create", "update", "delete">>

\* LocalStorage.addPendingSyncOperation while offline, for task t2 (not in the
\* remote store): its create, then its update, then its delete
QueueOffline ==
  /\ ~sq.online
  /\ sq.nextId <= Len(Lifecycle)
  /\ sq' = [sq EXCEPT !.queue = Append(@, [id |-> sq.nextId, type |-> Lifecycle[sq.nextId],
                                            task |-> "t2", timestamp |-> now]),
                       !.nextId = @ + 1]
  /\ UNCHANGED <<platform, rh, tm, ls, ca, now, store, idp, auth, hook, pro, req, respIcpts, lo, li, hist>>

\* LocalStorage.removePendingSyncOperation: filter(op => op.id !== operationId)
RemovePendingSyncOperation(queue, operationId) ==
  SelectSeq(queue, LAMBDA op : op.id # operationId)

\* pendingOperations.sort((a, b) => a.timestamp - b.timestamp), a stable sort
RECURSIVE InsertByTimestamp(_, _)
InsertByTimestamp(sorted, op) ==
  IF sorted = <<>> THEN <<op>>
  ELSE IF Head(sorted).timestamp > op.timestamp THEN <<op>> \o sorted
  ELSE <<Head(sorted)>> \o InsertByTimestamp(Tail(sorted), op)

RECURSIVE SortByTimestamp(_)
SortByTimestamp(ops) ==
  IF ops = <<>> THEN <<>>
  ELSE InsertByTimestamp(SortByTimestamp(SubSeq(ops, 1, Len(ops) - 1)), ops[Len(ops)])

\* TaskApiService.isAuthenticated: an access token is stored and validateToken accepts it
IsAuthenticated(s) ==
  LET token == GetToken(s, "access")
  IN  token # NoTok /\ ValidateToken(token)

\* variant: the stored token is not looked at
CanSync_OnlineOnly(online, authenticated) == online

\* the two guards of syncPendingOperations
CanSync(online, authenticated) == online /\ authenticated

\* syncPendingOperations begins: offline, not authenticated or nothing pending
\* returns at once; otherwise the loop starts over the sorted operations
SyncStart(f) ==
  /\ sq.flush[f].pc = "idle"
  /\ sq.starts < MaxFlushes
  /\ LET online == sq.online
         authenticated == IsAuthenticated(store)
         begins == CanSync(online, authenticated) /\ Len(sq.queue) # 0
     IN  sq' = [sq EXCEPT !.starts = @ + 1,
                          !.last = [online |-> online, authenticated |-> authenticated,
                                    pending |-> Len(sq.queue), began |-> begins],
                          !.flush[f] = IF begins
                                         THEN [pc |-> "send", ops |-> SortByTimestamp(sq.queue),
                                               i |-> 1]
                                         ELSE NoFlush]
  /\ UNCHANGED <<platform, rh, tm, ls, ca, now, store, idp, auth, hook, pro, req, respIcpts, lo, li, hist>>

\* the loop reaches sortedOperations[i] and makes the remote call for it
SyncSend(f) ==
  /\ sq.flush[f].pc = "send"
  /\ sq' = [sq EXCEPT !.flush[f].pc = "call"]
  /\ UNCHANGED <<platform, rh, tm, ls, ca, now, store, idp, auth, hook, pro, req, respIcpts, lo, li, hist>>

\* after operation i: the next one, or saveLastSyncTimestamp and return
NextOperation(fl) ==
  IF fl.i < Len(fl.ops) THEN [fl EXCEPT !.pc = "send", !.i = @ + 1] ELSE NoFlush

\* the catch of the loop: `break` on a message with Unauthorized or Forbidden,
\* else on to the next operation
AfterError(fl, outcome) ==
  IF outcome \in {"Unauthorized", "Forbidden"} THEN NoFlush ELSE NextOperation(fl)

\* what the remote store can answer to the call for operation op.  "data": the
\* call resolves with data; "nodata": it resolves with { data: null, errors },
\* the case createTask and updateTask test with `if (!task)` (the replay loop
\* does not look at the result); "lost": the store applies the operation and the answer does
\* not arrive, the call rejects; "not found" and the others: it rejects with
\* that message.
AllOutcomes == {"data", "nodata", "lost", "not found", "Unauthorized", "Forbidden", "error"}

Outcomes(op) ==
  {"nodata", "Unauthorized", "Forbidden", "error"}
    \cup (IF op.type = "create" \/ sq.exists[op.task]
           THEN {"data", "lost"} ELSE {"not found"})

\* the remote call of operation i returns
SyncReply(f, outcome) ==
  LET fl == sq.flush[f]
      op == fl.ops[fl.i]
      rejected == outcome \in {"lost", "Unauthorized", "Forbidden", "error"}
      applied == outcome \in {"data", "lost"}
      \* a create of a task the remote store already has is skipped
      skipCreate == op.type = "create" /\ sq.exists[op.task]
  IN  /\ fl.pc = "call"
      /\ outcome \in Outcomes(op)
      /\ sq' = [sq EXCEPT
                  !.flush[f] = IF rejected THEN AfterError(fl, outcome) ELSE NextOperation(fl),
                  !.queue = IF rejected THEN @ ELSE RemovePendingSyncOperation(@, op.id),
                  !.log = IF applied /\ ~skipCreate THEN Append(@, op) ELSE @,
                  !.rows = IF applied /\ op.type = "create" /\ ~skipCreate THEN @ + 1 ELSE @,
                  !.exists[op.task] = IF applied /\ op.type = "delete" THEN FALSE ELSE @]
      /\ UNCHANGED <<platform, rh, tm, ls, ca, now, store, idp, auth, hook, pro, req, respIcpts, lo, li, hist>>

SyncNext ==
  \/ NetInfoChange
  \/ \E type \in {"create", "update", "delete"}, task \in Tasks :
        AddPendingSyncOperation(type, task)
  \/ \E f \in Flushes : SyncStart(f) \/ SyncSend(f)
  \/ \E f \in Flushes, outcome \in AllOutcomes : SyncReply(f, outcome)

\* ------------------------------------------------------ TaskApiService over LocalStorage
\* LocalStorage.getTasks / getPendingSyncOperations / getLastSyncTimestamp
GetTasks(l, userId) == l.kv[getStorageKey(userId, "tasks")]
GetPendingSyncOperations(l, userId) == l.kv[getStorageKey(userId, "pending_sync")]
GetLastSyncTimestamp(l, userId) == l.kv[getStorageKey(userId, "last_sync")]

\* LocalStorage.saveTasks
SaveTasks(l, userId, tasks) == [l EXCEPT !.kv[getStorageKey(userId, "tasks")] = tasks]

\* LocalStorage.addPendingSyncOperation: the key is built from operation.userId
PushPendingSyncOperation(l, operation) ==
  [l EXCEPT !.kv[getStorageKey(operation.userId, "pending_sync")] = Append(@, operation),
            !.nextOp = @ + 1]

\* the operation updateTaskOffline and deleteTask build; two calls read
\* different Date.now() values, so ids differ
PendingOperation(l, type, task, userId) ==
  [id |-> l.nextOp, type |-> type, task |-> task.id, timestamp |-> now, userId |-> userId]

Mutated(op, userId, remote, before, after) ==
  hist' = [hist EXCEPT !.mut =
             [op |-> op, userId |-> userId, remote |-> remote,
              queued |-> GetPendingSyncOperations(after, userId)
                           # GetPendingSyncOperations(before, userId),
              applied |-> GetTasks(after, userId) # GetTasks(before, userId),
              others |-> \E other \in Users \ {userId} :
                           \/ GetTasks(after, other) # GetTasks(before, other)
                           \/ GetPendingSyncOperations(after, other)
                                 # GetPendingSyncOperations(before, other)
                           \/ GetLastSyncTimestamp(after, other)
                                 # GetLastSyncTimestamp(before, other)]]

\* createTask: the remote create is tried whatever the connectivity; when it
\* fails a task with a mock id is built; the task is appended to the cache
CreateTask(userId, ok) ==
  /\ ls.nextTask <= MaxCreated
  /\ LET taskToSave == [id |-> ls.nextTask, isDone |-> FALSE, mock |-> ~ok]
         after == [SaveTasks(ls, userId, Append(GetTasks(ls, userId), taskToSave))
                     EXCEPT !.nextTask = @ + 1]
     IN  ls' = after /\ Mutated("create", userId, ok, ls, after)
  /\ UNCHANGED <<platform, rh, tm, sq, ca, now, store, idp, auth, hook, pro, req, respIcpts, lo, li>>

\* updateLocalTasks
UpdateLocalTasks(l, userId, updatedTask) ==
  SaveTasks(l, userId, [i \in 1..Len(GetTasks(l, userId)) |->
                          IF GetTasks(l, userId)[i].id = updatedTask.id
                            THEN updatedTask ELSE GetTasks(l, userId)[i]])

\* updateTask (toggleTaskCompletion) of a cached task: online and the remote
\* update returned data: the cache is updated; otherwise updateTaskOffline: the
\* cache is updated and an update operation is queued
UpdateTask(userId, i, online, ok) ==
  /\ i \in 1..Len(GetTasks(ls, userId))
  /\ (online /\ ok) \/ ls.nextOp <= MaxOps
  /\ LET task == GetTasks(ls, userId)[i]
         updatedTask == [task EXCEPT !.isDone = ~@]
         cached == UpdateLocalTasks(ls, userId, updatedTask)
         after == IF online /\ ok THEN cached
                  ELSE PushPendingSyncOperation(cached,
                         PendingOperation(ls, "update", updatedTask, userId))
     IN  ls' = after /\ Mutated("update", userId, online /\ ok, ls, after)
  /\ UNCHANGED <<platform, rh, tm, sq, ca, now, store, idp, auth, hook, pro, req, respIcpts, lo, li>>

\* deleteTask of a cached task: online: the remote delete, and the task leaves
\* the cache only if it succeeded; offline: a delete operation is queued and
\* the task leaves the cache
DeleteTask(userId, i, online, ok) ==
  /\ i \in 1..Len(GetTasks(ls, userId))
  /\ online \/ ls.nextOp <= MaxOps
  /\ LET allTasks == GetTasks(ls, userId)
         taskToDelete == allTasks[i]
         serverDeleteSuccess == IF online THEN ok ELSE TRUE
         queued == IF online THEN ls
                   ELSE PushPendingSyncOperation(ls,
                          PendingOperation(ls, "delete", taskToDelete, userId))
         after == IF serverDeleteSuccess
                    THEN SaveTasks(queued, userId,
                           SelectSeq(allTasks, LAMBDA t : t.id # taskToDelete.id))
                    ELSE queued
     IN  ls' = after /\ Mutated("delete", userId, online /\ ok, ls, after)
  /\ UNCHANGED <<platform, rh, tm, sq, ca, now, store, idp, auth, hook, pro, req, respIcpts, lo, li>>

\* what one syncPendingOperations(userId) call writes locally: every operation
\* whose replay went through is removed (the ones in failed stay), then
\* saveLastSyncTimestamp(userId, Date.now())
SyncUser(userId, failed) ==
  /\ GetPendingSyncOperations(ls, userId) # <<>>
  /\ LET after == [ls EXCEPT
                     !.kv[getStorageKey(userId, "pending_sync")] =
                         SelectSeq(@, LAMBDA op : op.id \in failed),
                     !.kv[getStorageKey(userId, "last_sync")] = <<now>>]
     IN  ls' = after /\ Mutated("sync", userId, TRUE, ls, after)
  /\ UNCHANGED <<platform, rh, tm, sq, ca, now, store, idp, auth, hook, pro, req, respIcpts, lo, li>>

\* TaskApiService.clearUserData -> LocalStorage.clearUserData
ClearUserData(userId) ==
  /\ LET after == [ls EXCEPT !.kv = [k \in StorageKeys |->
                       IF \E type \in StorageTypes : k = getStorageKey(userId, type)
                         THEN <<>> ELSE @[k]]]
     IN  ls' = after /\ Mutated("clear", userId, TRUE, ls, after)
  /\ UNCHANGED <<platform, rh, tm, sq, ca, now, store, idp, auth, hook, pro, req, respIcpts, lo, li>>

TaskNext ==
  \/ \E userId \in Users, ok \in BOOLEAN : CreateTask(userId, ok)
  \/ \E userId \in Users, i \in 1..MaxCreated, online \in BOOLEAN, ok \in BOOLEAN :
        UpdateTask(userId, i, online, ok)
  \/ \E userId \in Users, i \in 1..MaxCreated, online \in BOOLEAN, ok \in BOOLEAN :
        DeleteTask(userId, i, online, ok)
  \/ \E userId \in Users, failed \in SUBSET (1..MaxOps) : SyncUser(userId, failed)
  \/ \E userId \in Users : ClearUserData(userId)

\* ------------------------------------------------------ specification
ClockNext == Advance

HookNext ==
  \/ \E h \in Hooks : Render(h)
  \/ \E h \in Hooks : TimerTick(h)
  \/ \E h \in Hooks : ProDone(h)

HookCallNext ==
  \/ \E h \in Hooks : DirectCall(h)
  \/ \E h \in Hooks : DirectStop(h)
  \/ \E h \in Hooks : DirectStart(h)

ApiNext ==
  \/ \E r \in Requests : Send(r)
  \/ \E r \in Requests, status \in {200, 401, 403} : Respond(r, status)
  \/ \E r \in Requests : RefreshDone(r)

LogoutNext ==
  \/ LogoutStart
  \/ \E ok \in BOOLEAN, sok \in BOOLEAN : LogoutSignOut(ok, sok)
  \/ LogoutClearAuth
  \/ \E sok \in BOOLEAN : LogoutClearTokens(sok)
  \/ \E sok \in BOOLEAN : LogoutClearReAuth(sok)
  \/ LogoutDispatch

LoginNext ==
  \/ LoginStart
  \/ \E ok \in BOOLEAN, rt \in BOOLEAN, wr \in 0..2 : LoginDone(ok, rt, wr)
  \/ \E uok \in BOOLEAN, rok \in BOOLEAN, sok \in BOOLEAN : LoginRecover(uok, rok, sok)

CheckNext ==
  \/ CheckStart
  \/ \E ok \in BOOLEAN : CheckUser(ok)
  \/ CheckRefreshDone
  \/ \E ok \in BOOLEAN : CheckUserAfter(ok)
  \/ CheckProactiveDone
  \/ \E ok \in BOOLEAN : CheckGetTokens(ok)

\* the interval of the refresh timer, for every remaining lifetime
IntervalNext == \E remaining \in Lifetimes : StartInterval(remaining)

\* ------------------------------------------------------ token expiry, in the source's units
\* getTokenExpirationTime of a well-formed JWT whose payload has exp (seconds):
\* `payload.exp ? payload.exp * 1000 : null`, null written 0
getTokenExpirationTime(payloadExp) ==
  IF payloadExp # 0 THEN payloadExp * 1000 ELSE 0

\* variant: the boundary is excluded
isTokenExpiringSoon_Strict(payloadExp, currentTime, thresholdMinutes) ==
  LET expirationTime == getTokenExpirationTime(payloadExp)
      thresholdTime == currentTime + (thresholdMinutes * 60 * 1000)
  IN  IF expirationTime = 0 THEN FALSE
      ELSE expirationTime < thresholdTime

\* isTokenExpiringSoon(token, thresholdMinutes) at Date.now() = currentTime (ms)
isTokenExpiringSoon(payloadExp, currentTime, thresholdMinutes) ==
  LET expirationTime == getTokenExpirationTime(payloadExp)
      thresholdTime == currentTime + (thresholdMinutes * 60 * 1000)
  IN  IF expirationTime = 0 THEN FALSE
      ELSE expirationTime <= thresholdTime

\* what validateToken can be handed: a non-empty string or not (str), the number
\* of dot-separated segments, whether JSON.parse(atob(parts[1])) succeeds, and
\* the payload's exp in seconds (0: absent)
TokenTexts == [str : BOOLEAN, parts : 1..MaxParts, decodable : BOOLEAN, exp : 0..MaxExp]

\* variant: the expiry claim is not looked at
validateToken_NoExpiryCheck(token, dateNow) ==
  token.str /\ token.parts = 3 /\ token.decodable

\* validateToken(token) at Date.now() = dateNow (ms); a throw inside the try
\* block (payload not decodable) is caught and gives false
validateToken(token, dateNow) ==
  IF ~token.str THEN FALSE
  ELSE IF token.parts # 3 THEN FALSE
  ELSE IF ~token.decodable THEN FALSE
  ELSE LET currentTime == dateNow \div 1000
       IN  IF token.exp # 0 /\ token.exp < currentTime THEN FALSE ELSE TRUE

ValidateTokenCall(token, dateNow) ==
  /\ hist' = [hist EXCEPT !.val = [token |-> token, at |-> dateNow,
                                   result |-> validateToken(token, dateNow),
                                   set |-> TRUE]]
  /\ UNCHANGED <<platform, rh, tm, ls, sq, ca, now, store, idp, auth, hook, pro, req, respIcpts, lo, li>>

Thresholds == 0..MaxThreshold
ClockReadings == {500 * i : i \in 0..MaxTicks}
ExpiryClaims == {60 * m + d : m \in Thresholds, d \in 0..MaxDelta}

ExpiringSoonCall(payloadExp, currentTime, thresholdMinutes) ==
  /\ hist' = [hist EXCEPT !.soon =
                [exp |-> payloadExp, at |-> currentTime, m |-> thresholdMinutes,
                 result |-> isTokenExpiringSoon(payloadExp, currentTime, thresholdMinutes),
                 set |-> TRUE]]
  /\ UNCHANGED <<platform, rh, tm, ls, sq, ca, now, store, idp, auth, hook, pro, req, respIcpts, lo, li>>

ExpiryNext ==
  \E payloadExp \in ExpiryClaims, currentTime \in ClockReadings, thresholdMinutes \in Thresholds :
    ExpiringSoonCall(payloadExp, currentTime, thresholdMinutes)

ValidationNext ==
  \E token \in TokenTexts, dateNow \in ClockReadings : ValidateTokenCall(token, dateNow)

\* ------------------------------------------------------ SecureStorage called directly
Ended(op, threw) ==
  hist' = [hist EXCEPT !.sto = [op |-> op,
                                outcome |-> IF threw THEN "threw" ELSE "resolved"]]

Returned(op, isNull) ==
  hist' = [hist EXCEPT !.sto = [op |-> op,
                                outcome |-> IF isNull THEN "null" ELSE "value"]]

StoreTokenCall(tokenType, token, ttl, len, f) ==
  LET res == StoreTokenResult(store, tokenType, token, ttl, len, f)
  IN  /\ store' = res.store
      /\ Ended("storeToken", res.threw)
      /\ UNCHANGED <<platform, rh, tm, ls, sq, ca, now, idp, auth, hook, pro, req, respIcpts, lo, li>>

RemoveTokenCall(tokenType, f) ==
  LET res == RemoveTokenResult(store, tokenType, f)
  IN  /\ store' = res.store
      /\ Ended("removeToken", res.threw)
      /\ UNCHANGED <<platform, rh, tm, ls, sq, ca, now, idp, auth, hook, pro, req, respIcpts, lo, li>>

ClearAllCall(f) ==
  LET res == ClearAllResult(store, f)
  IN  /\ store' = res.store
      /\ Ended("clearAll", res.threw)
      /\ UNCHANGED <<platform, rh, tm, ls, sq, ca, now, idp, auth, hook, pro, req, respIcpts, lo, li>>

\* storeReAuthTimestamp, storeBiometricKey and storePIN: setSecureItem on their key
SetSecureItemCall(key, value, f) ==
  LET res == SetSecureItemResult(store, key, value, f)
  IN  /\ store' = res.store
      /\ Ended("setSecureItem", res.threw)
      /\ UNCHANGED <<platform, rh, tm, ls, sq, ca, now, idp, auth, hook, pro, req, respIcpts, lo, li>>

GetTokenCall(tokenType, f) ==
  /\ Returned("getToken", GetTokenResult(store, tokenType, f) = NoTok)
  /\ UNCHANGED <<platform, rh, tm, ls, sq, ca, now, store, idp, auth, hook, pro, req, respIcpts, lo, li>>

\* getReAuthTimestamp, getBiometricKey and getPIN: getSecureItem on their key
GetSecureItemCall(key, f) ==
  /\ Returned("getSecureItem", GetSecureItemResult(store, key, f) = NoStr)
  /\ UNCHANGED <<platform, rh, tm, ls, sq, ca, now, store, idp, auth, hook, pro, req, respIcpts, lo, li>>

\* isTokenExpired: no record: true; expiresAt 0: false; else Date.now() >= expiresAt
isTokenExpired(s, tokenType) ==
  LET tokenData == GetSecureItem(s, KeyOf(tokenType))
  IN  IF tokenData = NoStr THEN TRUE
      ELSE IF tokenData.num = 0 THEN FALSE
      ELSE now >= tokenData.num

\* cleanupExpiredTokens: for 'access', then for 'refresh': removeSecureItem of
\* the key when isTokenExpired
cleanupExpiredTokens(s) ==
  LET s1 == IF isTokenExpired(s, "access") THEN RemoveSecureItem(s, ACCESS_TOKEN_KEY) ELSE s
  IN  IF isTokenExpired(s1, "refresh") THEN RemoveSecureItem(s1, REFRESH_TOKEN_KEY) ELSE s1

CleanupExpiredTokensCall ==
  /\ store' = cleanupExpiredTokens(store)
  /\ Ended("cleanupExpiredTokens", FALSE)
  /\ UNCHANGED <<platform, rh, tm, ls, sq, ca, now, idp, auth, hook, pro, req, respIcpts, lo, li>>

StorageNext ==
  \/ \E tokenType \in TokenTypes, g \in 1..MaxGen, ttl \in Ttls, len \in Lengths, f \in Faults :
        StoreTokenCall(tokenType, Tok(tokenType, g, 0), ttl, len, f)
  \/ \E tokenType \in TokenTypes, f \in Faults : RemoveTokenCall(tokenType, f)
  \/ \E f \in Faults : ClearAllCall(f)
  \/ \E key \in PlainKeys, value \in PlainValues, f \in Faults :
        SetSecureItemCall(key, value, f)
  \/ \E tokenType \in TokenTypes, f \in Faults : GetTokenCall(tokenType, f)
  \/ \E key \in PlainKeys, f \in Faults : GetSecureItemCall(key, f)

\* ------------------------------------------------------ the refresh timer on the clock
\* the interval startTokenRefresh uses for a token that expires at minute exp:
\* calculateRefreshInterval(tokens.expiresIn - Date.now()), in minutes
IntervalMinutes(exp) == calculateRefreshInterval((exp - now) * 60 * 1000) \div (60 * 1000)

\* login: the provider issues an access token of `life` minutes, loginSuccess
\* makes the session authenticated and the effect starts the timer
TimedLogin(life) ==
  /\ ~tm.running
  /\ tm' = [running |-> TRUE, life |-> life, exp |-> now + life,
            interval |-> IntervalMinutes(now + life),
            next |-> now + IntervalMinutes(now + life)]
  /\ UNCHANGED <<platform, rh, ls, sq, ca, now, store, idp, auth, hook, pro, req, respIcpts, lo, li, hist>>

\* time passes up to the next tick of setInterval; the callback runs
\* refreshTokenIfNeeded: when the stored access token expires within 5 minutes
\* the provider issues a new one (the refresh succeeds), proactiveRefreshSuccess
\* changes tokens.expiresIn and the effect restarts the timer with a new interval
TimedTick ==
  /\ tm.running
  /\ tm.next <= MaxTimerNow
  /\ now' = tm.next
  /\ LET shouldRefresh == isTokenExpiringSoon(tm.exp * 60, tm.next * 60 * 1000, ThresholdMinutes)
         exp == tm.next + tm.life
         interval == calculateRefreshInterval(tm.life * 60 * 1000) \div (60 * 1000)
         after == IF shouldRefresh
                    THEN [tm EXCEPT !.exp = exp, !.interval = interval,
                                    !.next = tm.next + interval]
                    ELSE [tm EXCEPT !.next = @ + tm.interval]
     IN  /\ tm' = after
         /\ hist' = [hist EXCEPT !.tick = [set |-> TRUE, at |-> tm.next, exp |-> tm.exp,
                                           refreshed |-> shouldRefresh, next |-> after.next]]
  /\ UNCHANGED <<platform, rh, ls, sq, ca, store, idp, auth, hook, pro, req, respIcpts, lo, li>>

TimerNext ==
  \/ \E life \in 1..MaxLifeMinutes : TimedLogin(life)
  \/ TimedTick


\* the whole session manager
Next ==
  \/ ClockNext \/ HookNext \/ HookCallNext \/ ApiNext \/ LogoutNext \/ LoginNext
  \/ CheckNext \/ ReAuthSuccess \/ IntervalNext \/ StorageNext
  \/ ExpiryNext \/ ValidationNext \/ Elapse \/ BiometricNext \/ SyncNext \/ TaskNext
  \/ QueueOffline \/ CleanupExpiredTokensCall \/ TimerNext \/ PollNext

Spec == Init /\ [][Next]_vars

\* the refresh timers and the reactive refresh of the ApiClient
RefreshNext == ClockNext \/ HookNext \/ ApiNext \/ LoginNext

SpecRefresh == Init /\ [][RefreshNext]_vars

\* the components' use of useTokenRefresh
HooksNext == ClockNext \/ HookNext \/ HookCallNext \/ LoginNext

SpecHooks == Init /\ [][HooksNext]_vars

\* requests through the ApiClient, with logout re-registering the interceptors
ApiClientNext ==
  Render(LogoutCaller) \/ ApiNext \/ LogoutNext \/ LoginNext

SpecApi == Init /\ [][ApiClientNext]_vars

\* logout against the refresh timers
SessionNext == ClockNext \/ HookNext \/ LogoutNext \/ LoginNext \/ ReAuthSuccess

SpecLogout == Init /\ [][SessionNext]_vars

\* a session with re-authentication and useReAuth's periodic check, minute by minute
ReAuthPollNext ==
  \/ PollNext
  \/ ReAuthSuccess
  \/ LoginStart
  \/ LoginDone(TRUE, TRUE, 2)
  \/ Render(LogoutCaller)
  \/ LogoutStart
  \/ LogoutSignOut(TRUE, TRUE)
  \/ LogoutClearAuth
  \/ LogoutClearTokens(TRUE)
  \/ LogoutClearReAuth(TRUE)
  \/ LogoutDispatch

SpecReAuthPoll == Init /\ [][ReAuthPollNext]_vars

\* the ways a session becomes authenticated: login, checkAuthStatus, refreshes
AuthNext == ClockNext \/ LoginNext \/ CheckNext \/ ApiNext

SpecAuth == Init /\ [][AuthNext]_vars

SpecInterval == Init /\ [][IntervalNext]_vars

\* isTokenExpiringSoon over expiry claims, clock readings and thresholds
SpecExpiry == Init /\ [][ExpiryNext]_vars

\* validateToken over token texts and clock readings
SpecValidation == Init /\ [][ValidationNext]_vars

\* re-authentication next to the storing of tokens, while time passes
ReAuthNext ==
  \/ Elapse
  \/ BiometricNext
  \/ \E tokenType \in TokenTypes, g \in 1..MaxGen, len \in Lengths :
        StoreTokenCall(tokenType, Tok(tokenType, g, 0), 0, len, "none")

SpecReAuth == Init /\ [][ReAuthNext]_vars

\* the sync queue, with an access token stored at some point
TaskSyncNext ==
  \/ ClockNext
  \/ SyncNext
  \/ StoreTokenCall("access", Tok("access", 1, 0), 0, LongLen, "none")

SpecSync == Init /\ [][TaskSyncNext]_vars

\* an authenticated session with its refresh timer, every refresh succeeding
SpecTimer == Init /\ [][TimerNext]_vars

\* tokens stored with and without an expiry, cleaned up while time passes
CleanupNext ==
  \/ Elapse
  \/ \E tokenType \in TokenTypes, g \in 1..MaxGen, ttl \in Ttls :
        StoreTokenCall(tokenType, Tok(tokenType, g, 0), ttl, LongLen, "none")
  \/ CleanupExpiredTokensCall

SpecCleanup == Init /\ [][CleanupNext]_vars

\* a task created, edited and deleted offline, then replayed
LifecycleNext ==
  \/ ClockNext
  \/ NetInfoChange
  \/ QueueOffline
  \/ SyncStart("f1") \/ SyncSend("f1")
  \/ \E outcome \in AllOutcomes : SyncReply("f1", outcome)
  \/ StoreTokenCall("access", Tok("access", 1, 0), 0, LongLen, "none")

SpecLifecycle == Init /\ [][LifecycleNext]_vars

\* task mutations of two users over LocalStorage, while time passes
LocalNext == ClockNext \/ TaskNext

SpecLocal == Init /\ [][LocalNext]_vars

\* two users working offline on one device, replaying and clearing their data
IsolationNext ==
  \/ \E userId \in Users : CreateTask(userId, FALSE)
  \/ \E userId \in Users, i \in 1..MaxCreated : UpdateTask(userId, i, FALSE, FALSE)
  \/ \E userId \in Users, i \in 1..MaxCreated : DeleteTask(userId, i, FALSE, FALSE)
  \/ \E userId \in Users, failed \in SUBSET (1..MaxOps) : SyncUser(userId, failed)
  \/ \E userId \in Users : ClearUserData(userId)

SpecIsolation == Init /\ [][IsolationNext]_vars

\* one syncPendingOperations call at a time, while connectivity changes and the
\* access token is stored and removed
SyncGuardNext ==
  \/ NetInfoChange
  \/ \E type \in {"create", "update", "delete"} : AddPendingSyncOperation(type, "t1")
  \/ SyncStart("f1") \/ SyncSend("f1")
  \/ \E outcome \in AllOutcomes : SyncReply("f1", outcome)
  \/ StoreTokenCall("access", Tok("access", 1, 0), 0, LongLen, "none")
  \/ RemoveTokenCall("access", "none")

SpecSyncGuard == Init /\ [][SyncGuardNext]_vars

\* the credential store under direct calls
SpecStorage == Init /\ [][StorageNext]_vars

\* ====================================================== properties

ProactiveInFlight == {h \in Hooks : pro[h].pc = "calling"}
ReactiveInFlight == {r \in Requests : req[r].pc = "refreshing"}

\* C1: when a timer-triggered refresh and a reactive (401) refresh overlap, one
\* refresh call is issued: there are never a provider call of a timer tick and a
\* provider call of the response interceptor outstanding at the same time.
C1_OneCallForOverlappingTriggers ==
  \A h \in Hooks, r \in Requests :
    ~(pro[h].pc = "calling" /\ pro[h].by = "timer" /\ req[r].pc = "refreshing")

\* what a caller can tell from a result: success and the token set
Outcome(result) == <<result.success, result.tokens>>

\* C2: a call of refreshTokenProactively that arrives while a refresh is in flight
\* ends with the outcome of that in-flight refresh (same token set, or both fail).
C2_LateTriggerSharesOutcome ==
  \A h \in Hooks :
    (hist.late[h] # NoResult /\ hist.attempt[h] # NoResult)
      => Outcome(hist.late[h]) = Outcome(hist.attempt[h])

\* C3: at most one refreshTokenIfNeeded call is in flight over all components, and
\* a component's in-progress flag is true exactly while its call is outstanding.
C3_SingleFlight ==
  /\ Cardinality(ProactiveInFlight) <= 1
  /\ \A h \in Hooks : hook[h].inProgress <=> (pro[h].pc = "calling")

LoggedOutClean ==
  /\ GetToken(store, "access") = NoTok
  /\ GetToken(store, "refresh") = NoTok
  /\ GetReAuthTimestamp(store) = NoStr
  /\ ~auth.isReAuthenticated
  /\ ~hook[LogoutCaller].timer
  /\ ~auth.isAuthenticated
  /\ ~auth.user
  /\ auth.tokens = NullTokens

\* C6: when logoutUser completes (no storage call having failed), from any session
\* state and whether or not signOut failed, the credential store holds no token, the
\* re-auth state is cleared, the refresh timer is stopped and the session state is
\* UNAUTHENTICATED.
C6_LogoutLeavesCleanState ==
  [][(lo.pc # LogoutDone /\ lo'.pc = LogoutDone /\ ~lo'.fault) => LoggedOutClean']_vars

\* C7: logoutUser attempts the six cleanup tasks once each, in order, whichever of
\* them throw: the tasks run so far are always 1..n in order, and all six have run
\* when the loop is done.
C7_EveryCleanupTaskRuns ==
  /\ lo.log = [i \in 1..Len(lo.log) |-> i]
  /\ lo.pc = LogoutDone => Len(lo.log) = Len(LogoutTasks)
  /\ lo.pc \in 1..Len(LogoutTasks) => Len(lo.log) = lo.pc - 1

\* C7 witness: a completed logout in which every task that can throw did throw
C7_Witness ==
  /\ lo.pc = LogoutDone
  /\ lo.threw = {2, 4}
  /\ lo.log = <<1, 2, 3, 4, 5, 6>>

\* C8: a refresh timer tick after logout (and before a new login) issues no
\* refresh call and changes neither the credential store nor the session state.
C8_TickAfterLogoutIsNoOp ==
  [][\A h \in Hooks :
       (TimerTick(h) /\ hist.postLogout /\ ~lo.fault)
         => /\ pro'[h].pc # "calling"
            /\ idp' = idp
            /\ store' = store
            /\ auth' = auth]_vars

\* C9: a network failure of a proactive or a reactive refresh keeps the stored
\* credentials and leaves the session authenticated.
C9_NetworkFailureKeepsSession ==
  [][/\ \A h \in Hooks :
          (ProDone(h) /\ pro[h].err = "network" /\ auth.isAuthenticated)
            => (store' = store /\ auth'.isAuthenticated)
     /\ \A r \in Requests :
          (RefreshDone(r) /\ req[r].err = "network" /\ auth.isAuthenticated)
            => (store' = store /\ auth'.isAuthenticated)]_vars

\* C10: a 403 response starts no refresh, removes no stored token, leaves the
\* session state unchanged and is rejected to the caller.
C10_ForbiddenNeverLogsOut ==
  [][\A r \in Requests :
       Respond(r, 403)
         => /\ auth' = auth
            /\ store' = store
            /\ idp' = idp
            /\ req'[r].nref = req[r].nref
            /\ req'[r].pc = "done"
            /\ req'[r].status = 403
            /\ req'[r].result = "rejected"]_vars

\* C10 witness: an authenticated session got a 403 on the retry that followed a refresh
C10_Witness ==
  \E r \in Requests :
    /\ req[r].pc = "done"
    /\ req[r].status = 403
    /\ req[r].nretry = 1
    /\ auth.isAuthenticated
    /\ GetToken(store, "access") # NoTok

\* C11: the interval a timer is started with equals clamp(0.66 * L, 5 min, 15 min)
\* for the remaining lifetime L in milliseconds (both sides times 100).
C11_IntervalIsClampedTwoThirds ==
  hist.interval.set =>
    100 * hist.interval.interval =
      Min(Max(66 * hist.interval.remaining, 100 * 5 * 60 * 1000), 100 * 15 * 60 * 1000)

\* C12: whenever isAuthenticated is true the session's accessToken and idToken
\* are both present.
C12_AuthenticatedHasTokens ==
  auth.isAuthenticated =>
    /\ ~auth.tokens.isNull
    /\ auth.tokens.accessToken # NoTok
    /\ auth.tokens.idToken # NoTok

\* what a finished checkAuthStatus run has done
CheckOutcome ==
  LET agree == ca.valid /\ ca.user
  IN  /\ (ca.result = "true" /\ ca.nref = 0) => agree
      /\ ca.nref <= 1
      /\ ca.nref = 1 => (ca.refresh # NoTok /\ ~agree)
      /\ (ca.access # NoTok /\ ~agree) =>
            \/ /\ ca.result = "true"
               /\ ca.nref = 1
               /\ ~ca.resp.isNull
            \/ /\ ca.result = "false"
               /\ GetToken(store, "access") = NoTok
               /\ GetToken(store, "refresh") = NoTok

\* C13: when checkAuthStatus returns, it has reported the session authenticated
\* without a refresh only if token validation and getCurrentUser both succeeded;
\* if they did not, it made at most one refresh with the stored refresh token, and
\* without a refresh token, or when the refresh gave no current user, the stored
\* tokens are cleared and the result is false.
C13_CheckAuthStatusOutcome ==
  [][(ca.pc # "done" /\ ca'.pc = "done") => CheckOutcome']_vars

\* secure storage returns the access token and the refresh token of `tokens`
TokensWritten(st, tokens) ==
  /\ GetToken(st, "access") = tokens.accessToken
  /\ tokens.refreshToken # NoTok => GetToken(st, "refresh") = tokens.refreshToken

\* C14 (for a login that no other operation authenticates meanwhile): a sign-in rejected because a session already exists dispatches no
\* failure: login goes on to fetch the current user and force a refresh.  When
\* that yields a user and tokens that are written, login returns success, the
\* state is authenticated with those tokens and secure storage holds them;
\* login fails (error recorded, not authenticated) only when recovery fails.
C14_AlreadySignedInRecovers ==
  [][/\ \A ok \in BOOLEAN, rt \in BOOLEAN, wr \in 0..2 :
          (LoginDone(ok, rt, wr) /\ ok /\ idp.signedIn)
            => (li' = "recover" /\ auth' = auth)
     /\ \A uok \in BOOLEAN, rok \in BOOLEAN, sok \in BOOLEAN :
          (LoginRecover(uok, rok, sok) /\ ~auth.isAuthenticated) =>
            LET rec == Recovered(uok, rok, sok)
            IN  IF rec.stored
                  THEN /\ li' = "succeeded"
                       /\ auth'.isAuthenticated
                       /\ auth'.tokens = rec.tokens
                       /\ TokensWritten(store', rec.tokens)
                  ELSE /\ li' = "failed"
                       /\ ~auth'.isAuthenticated
                       /\ auth'.error
                       /\ ~auth'.isLoading]_vars

\* C15 (for a login that no other operation authenticates meanwhile): a login that signs in a new session returns success and leaves the
\* state authenticated only with the session's tokens written to secure storage;
\* when the provider call or a token write fails it returns failure, the state
\* is not authenticated, isLoading is false and the error is recorded.
C15_LoginAuthenticatedAfterWrite ==
  [][\A ok \in BOOLEAN, rt \in BOOLEAN, wr \in 0..2 :
        (LoginDone(ok, rt, wr) /\ ~(ok /\ idp.signedIn) /\ ~auth.isAuthenticated) =>
          /\ (~ok \/ wr < 2) => li' = "failed"
          /\ li' = "succeeded" =>
                /\ auth'.isAuthenticated
                /\ ~auth'.isLoading
                /\ TokensWritten(store', auth'.tokens)
          /\ li' = "failed" =>
                /\ ~auth'.isAuthenticated
                /\ ~auth'.isLoading
                /\ auth'.error
          /\ li' \in {"succeeded", "failed"}]_vars

\* C16: a storeToken(kind, v, ttl) that resolves is followed by getToken(kind)
\* returning v, for serialized lengths below and above ANDROID_CHUNK_SIZE and on
\* both platforms.
C16_StoreTokenRoundTrip ==
  [][\A tokenType \in TokenTypes, g \in 1..MaxGen, ttl \in Ttls, len \in Lengths, f \in Faults :
        (/\ StoreTokenCall(tokenType, Tok(tokenType, g, 0), ttl, len, f)
         /\ hist'.sto.outcome = "resolved")
          => GetToken(store', tokenType) = Tok(tokenType, g, 0)]_vars

\* C17: storing or removing the token of one kind leaves the value getToken
\* returns for the other kind unchanged.
C17_TokenKindsIndependent ==
  [][\A tokenType \in TokenTypes, other \in TokenTypes :
        (/\ other # tokenType
         /\ \/ \E g \in 1..MaxGen, ttl \in Ttls, len \in Lengths, f \in Faults :
                 StoreTokenCall(tokenType, Tok(tokenType, g, 0), ttl, len, f)
            \/ \E f \in Faults : RemoveTokenCall(tokenType, f))
          => GetToken(store', other) = GetToken(store, other)]_vars

\* C18: a setSecureItem(key, value) that resolves is followed by getSecureItem(key)
\* returning that value, whatever the sizes of the values written to the key before.
C18_ReadReturnsLastWrite ==
  [][\A key \in PlainKeys, value \in PlainValues, f \in Faults :
        (SetSecureItemCall(key, value, f) /\ hist'.sto.outcome = "resolved")
          => GetSecureItem(store', key) = value]_vars

\* C19: right after a clearAll that resolved, getToken returns null for both
\* kinds and getPIN, getBiometricKey and getReAuthTimestamp return null.
C19_ClearAllWipesEverything ==
  hist.sto = [op |-> "clearAll", outcome |-> "resolved"] =>
    /\ \A tokenType \in TokenTypes : GetToken(store, tokenType) = NoTok
    /\ GetPIN(store) = NoStr
    /\ GetBiometricKey(store) = NoStr
    /\ GetReAuthTimestamp(store) = NoStr

\* C20: a read never throws, and returns null when the read that would supply
\* the value rejects; storeToken, removeToken and clearAll throw when an
\* underlying write, removal or clear they make rejects.
C20_ReadsFailClosedWritesFailLoudly ==
  [][/\ \A tokenType \in TokenTypes, f \in Faults :
          GetTokenCall(tokenType, f) =>
            /\ hist'.sto.outcome \in {"null", "value"}
            /\ (f = "kc" /\ (platform = "ios" \/ store.es[KeyOf(tokenType)] = NoStr))
                  => hist'.sto.outcome = "null"
     /\ \A key \in PlainKeys, f \in Faults :
          GetSecureItemCall(key, f) =>
            /\ hist'.sto.outcome \in {"null", "value"}
            /\ (f = "kc" /\ (platform = "ios" \/ store.es[key] = NoStr))
                  => hist'.sto.outcome = "null"
     /\ \A tokenType \in TokenTypes, g \in 1..MaxGen, ttl \in Ttls, len \in Lengths, f \in Faults :
          (/\ StoreTokenCall(tokenType, Tok(tokenType, g, 0), ttl, len, f)
           /\ Rejected(KeyOf(tokenType), TokenData(Tok(tokenType, g, 0), ttl, len), f))
            => hist'.sto.outcome = "threw"
     /\ \A tokenType \in TokenTypes, f \in Faults :
          (RemoveTokenCall(tokenType, f) /\ RemoveRejected(f))
            => hist'.sto.outcome = "threw"
     /\ \A f \in Faults :
          (ClearAllCall(f) /\ RemoveRejected(f)) => hist'.sto.outcome = "threw"]_vars

\* C21: for a token whose payload carries an expiry claim, E its expiry in
\* milliseconds, isTokenExpiringSoon(T, m) is true exactly when
\* now + m * 60000 >= E, the boundary included.
C21_ExpiringSoonIffWithinThreshold ==
  (hist.soon.set /\ hist.soon.exp # 0) =>
    (hist.soon.result <=> hist.soon.at + hist.soon.m * 60000 >= hist.soon.exp * 1000)

\* a call made exactly at the threshold, with a non-zero threshold, returned true
C21_Witness ==
  /\ hist.soon.set
  /\ hist.soon.m > 0
  /\ hist.soon.at > 0
  /\ hist.soon.at + hist.soon.m * 60000 = hist.soon.exp * 1000
  /\ hist.soon.result

\* the token text has three segments and a decodable payload
WellFormed(token) == token.str /\ token.parts = 3 /\ token.decodable

\* C22 as stated: validateToken returns true exactly for a well-formed token
\* that has an expiry claim not before the current time (whole seconds).
C22_ValidTokenHasCurrentExpiry ==
  hist.val.set =>
    (hist.val.result <=>
       /\ WellFormed(hist.val.token)
       /\ hist.val.token.exp # 0
       /\ hist.val.token.exp >= hist.val.at \div 1000)

\* C22 amended: validateToken returns true exactly for a well-formed token whose
\* expiry claim, if it has one, is not before the current time (whole seconds);
\* a well-formed token without expiry claim is valid.
C22_ValidTokenNotExpired ==
  hist.val.set =>
    (hist.val.result <=>
       /\ WellFormed(hist.val.token)
       /\ (hist.val.token.exp = 0 \/ hist.val.token.exp >= hist.val.at \div 1000))

\* a well-formed token without expiry claim was validated after time had passed
C22_Witness ==
  /\ hist.val.set
  /\ WellFormed(hist.val.token)
  /\ hist.val.token.exp = 0
  /\ hist.val.at >= 1000
  /\ hist.val.result

\* C23: after a successful biometric or PIN check whose timestamp was written,
\* and until the re-auth state is cleared, isReAuthValid() is true exactly while
\* less than SESSION_DURATION has elapsed since the last such check.
C23_ReAuthValidWithinWindow ==
  (hist.ra.checkedAt >= 0 /\ hist.ra.wrote) =>
    (isReAuthValid(store) <=> now - hist.ra.checkedAt < SessionDuration)

\* C24: a biometric or PIN check, setPIN and clearReAuthState leave what getToken
\* returns for the access and the refresh token unchanged, and storing a token
\* leaves isReAuthValid unchanged.
C24_ReAuthAndTokensIndependent ==
  [][/\ BiometricNext =>
          \A tokenType \in TokenTypes : GetToken(store', tokenType) = GetToken(store, tokenType)
     /\ (\E tokenType \in TokenTypes, g \in 1..MaxGen, len \in Lengths :
            StoreTokenCall(tokenType, Tok(tokenType, g, 0), 0, len, "none"))
          => (isReAuthValid(store') <=> isReAuthValid(store))]_vars

\* C25: authenticateWithPIN(pin) succeeds exactly when a PIN has been set and
\* equals pin; a success whose write works stamps the current time, and a
\* failure leaves the re-auth timestamp unchanged.
C25_PinCheckExact ==
  [][\A pin \in 1..MaxPin, sok \in BOOLEAN :
        AuthenticateWithPIN(pin, sok) =>
          /\ hist'.ra.success <=> (hist.ra.pin # 0 /\ hist.ra.pin = pin)
          /\ (hist'.ra.success /\ sok) =>
                GetReAuthTimestamp(store') = [tok |-> NoTok, num |-> now, len |-> ShortLen]
          /\ ~hist'.ra.success => GetReAuthTimestamp(store') = GetReAuthTimestamp(store)]_vars

C27_PerTaskCreationOrder ==
  \A i \in 1..Len(sq.log), j \in 1..Len(sq.log) :
    (i < j /\ sq.log[i].task = sq.log[j].task) =>
      /\ sq.log[i].id <= sq.log[j].id
      /\ sq.log[i].timestamp <= sq.log[j].timestamp

\* C28: replay is strictly sequential: at most one replay call is outstanding
\* at any moment, and no queued operation is being sent by two
\* syncPendingOperations calls.
C28_ReplaySequential ==
  \A f \in Flushes, g \in Flushes :
    (f # g /\ sq.flush[f].pc = "call") =>
      /\ sq.flush[g].pc # "call"
      /\ sq.flush[g].pc = "send" =>
            sq.flush[g].ops[sq.flush[g].i].id # sq.flush[f].ops[sq.flush[f].i].id

C30_AuthErrorHaltsAndKeepsQueue ==
  [][\A f \in Flushes, outcome \in AllOutcomes :
        SyncReply(f, outcome) =>
          LET fl == sq.flush[f]
              op == fl.ops[fl.i]
          IN  /\ outcome \in {"Unauthorized", "Forbidden"} =>
                    (sq'.flush[f] = NoFlush /\ sq'.queue = sq.queue)
              /\ sq'.queue # sq.queue =>
                    \/ outcome \in {"data", "not found"}
                    \/ op.type = "create" /\ sq.exists[op.task]]_vars

\* C31: a task mutation that is attempted offline, or whose remote call fails,
\* queues a pending operation and is applied to the local task cache.
C31_FailedMutationQueuedAndCached ==
  (hist.mut.op \in {"create", "update", "delete"} /\ ~hist.mut.remote)
    => (hist.mut.queued /\ hist.mut.applied)

C33_UsersIsolated == ~hist.mut.others

\* u1 has replayed part of its queue next to a second user with tasks of its
\* own, an empty queue and no sync yet
C33_Witness ==
  /\ hist.mut.op = "sync" /\ hist.mut.userId = "u1"
  /\ GetPendingSyncOperations(ls, "u1") # <<>>
  /\ GetLastSyncTimestamp(ls, "u1") # <<>>
  /\ GetTasks(ls, "sync_u1") # <<>>
  /\ GetPendingSyncOperations(ls, "sync_u1") = <<>>
  /\ GetLastSyncTimestamp(ls, "sync_u1") = <<>>

C35_CleanupRemovesOnlyExpired ==
  [][CleanupExpiredTokensCall =>
       \A tokenType \in TokenTypes :
         LET tokenData == GetSecureItem(store, KeyOf(tokenType))
         IN  tokenData # NoStr =>
               IF tokenData.num # 0 /\ now >= tokenData.num
                 THEN GetToken(store', tokenType) = NoTok
                 ELSE GetToken(store', tokenType) = tokenData.tok]_vars

\* C36: logout is final: after logout has completed (no storage call of it
\* having failed, no new login begun) a refresh that was outstanding does not
\* bring tokens back: the credential store holds no token, the session state
\* has tokens = null and isAuthenticated = false.
C36_LogoutFinalForInFlightRefresh ==
  (hist.postLogout /\ ~lo.fault) =>
    /\ GetToken(store, "access") = NoTok
    /\ GetToken(store, "refresh") = NoTok
    /\ auth.tokens = NullTokens
    /\ ~auth.isAuthenticated

\* C37: when checkAuthStatus returns false for a session that was
\* authenticated, the session state is not authenticated afterwards.
C37_FailedCheckEndsSession ==
  [][(ca.pc # "done" /\ ca'.pc = "done" /\ ca'.result = "false" /\ auth.isAuthenticated)
       => ~auth'.isAuthenticated]_vars

\* C38: while the session is authenticated, the timer runs and every refresh
\* succeeds, a tick never finds the stored access token already expired, and a
\* tick that does not refresh leaves a token that lasts beyond the next tick.
C38_TokenReplacedBeforeExpiry ==
  hist.tick.set =>
    /\ hist.tick.exp > hist.tick.at
    /\ ~hist.tick.refreshed => hist.tick.exp > hist.tick.next

\* C39: isReAuthValid() is true exactly when getReAuthTimeRemaining() > 0; both
\* report invalid and 0 when no timestamp is stored, and after clearReAuthState.
C39_ValidIffTimeRemaining ==
  /\ isReAuthValid(store) <=> getReAuthTimeRemaining(store) > 0
  /\ GetReAuthTimestamp(store) = NoStr \/ hist.ra.op = "clear"
       => ~isReAuthValid(store) /\ getReAuthTimeRemaining(store) = 0

\* C40: with useReAuth mounted, isReAuthenticated does not stay true for more
\* than one poll period after the stored window stopped being valid, and it is
\* false after logout and after clearReAuthSession.
C40_FlagFollowsStoredWindow ==
  /\ hist.poll.stale <= PollPeriod
  /\ hist.postLogout => ~auth.isReAuthenticated
  /\ hist.poll.cleared => ~auth.isReAuthenticated

====
